---- MODULE Spec2Model ----
(***************************************************************************)
(* Session store and provider router of the voice-assistant backend.       *)
(*                                                                         *)
(*   core/session_manager.py   Session, SessionManager                     *)
(*   llm/provider_manager.py   ProviderManager                             *)
(*   llm/base_provider.py      BaseLLMProvider                             *)
(*   llm/{openai,claude,ollama}_provider.py   the three adapters           *)
(*   api/websocket_handler.py  WebSocketHandler                            *)
(*                                                                         *)
(* Seven specifications share the module: Spec is the provider router,     *)
(* RegistrySpec the router with no chat call in flight, SessionSpec the    *)
(* session store under the clock with the connections bound to it,         *)
(* DispatchSpec the connection dispatcher with every message kind, each    *)
(* handler advancing from one awaited call to the next, PreferenceSpec     *)
(* the preference messages of the dispatcher beside the router's own       *)
(* operations, BroadcastSpec a broadcast over a store that changes under   *)
(* it, HistorySpec the history of one session.                             *)
(***************************************************************************)
EXTENDS Integers, Sequences, FiniteSets

VARIABLES
    \* ---- core/config.py
    api_keys,          \* set of provider families whose key file was loaded
    \* ---- llm/provider_manager.py : ProviderManager
    providers,         \* keys of self.providers (registered adapters)
    current_provider,  \* self.current_provider
    current_model,     \* self.current_model
    initialized,       \* initialize() has run (startup event of main.py)
    \* ---- llm/base_provider.py : one adapter object per family
    is_healthy,        \* adapter.is_healthy
    adapter_model,     \* adapter.current_model
    \* ---- one ProviderManager.chat call in flight
    pc,                \* "idle" | "fallback" (an adapter's chat has failed) |
                       \* "returned" | "raised"
    provider_to_use,   \* local of chat
    model_to_use,      \* local of chat
    idx,               \* chain position the fallback loop goes on from
    invoked,           \* adapter.chat invocations of this call, in order
    skipped,           \* providers passed over because is_available() was false
    result,            \* the dictionary chat returned
    returned,          \* what set_provider, set_model or health_check_all has
                       \* returned to a caller that has not gone on yet: <<the
                       \* call, the provider it was about, the value>>
    sweep,             \* one health_check_all call in flight: per adapter it
                       \* gathers, "pending" or what its health_check did
    \* ---- core/session_manager.py : SessionManager
    sessions,          \* self.sessions : id -> Session
    table,             \* the array of entries of the self.sessions dictionary:
                       \* the identifiers in the order they were inserted
                       \* in (UnknownId where an entry was deleted), and the
                       \* entries the array still has room for
    next_id,           \* the identifiers handed out so far are 1..next_id-1
    created,           \* identifiers returned by create_session
    removed,           \* identifiers remove_session was called with
    reaped,            \* identifiers cleanup_expired_sessions collected
    now,               \* datetime.now(), in ticks of SessionTick minutes
    conn,              \* per connection: where handle_connection stands
                       \* ("new" | "rejected" | "established" | "closing",
                       \* remove_session scheduled its close() | "aborting",
                       \* it awaits close(code=1011) | "closed"), the
                       \* session object it holds and the close code sent
    detached,          \* the Session objects that left the store while a
                       \* handle_connection still holds them, by identifier
    calls,             \* per connection: the message handler in flight, if
                       \* any: the type of its message, the source line of
                       \* the call it awaits (0: none), what it passed to
                       \* the call, and the sends it has made so far
    \* ---- api/websocket_handler.py : WebSocketHandler
    emitted,           \* the sends of the last step: the socket, the type of
                       \* the message they answer, every send_json tried
                       \* with how it ended, and the envelopes in flight to
                       \* the client (those whose send completed)
    appended,          \* per session of the store: every turn
                       \* add_conversation_turn was called with, in order
    broadcast          \* one SessionManager.broadcast_to_all call in flight:
                       \* where its dictionary iterator stands, the sends it
                       \* has made and the store as it was when it started

routerVars == <<api_keys, providers, current_provider, current_model, initialized,
                is_healthy, adapter_model, pc, provider_to_use, model_to_use,
                idx, invoked, skipped, result, returned, sweep>>
sessionVars == <<sessions, table, next_id, created, removed, reaped, now, conn,
                 detached, calls,
                 emitted, appended, broadcast>>
vars == <<routerVars, sessionVars>>

None == "None"

(***************************************************************************)
(* Provider families and model catalogues                                  *)
(***************************************************************************)
fallback_chain == <<"openai", "claude", "ollama">>

Chain == {fallback_chain[i] : i \in 1..Len(fallback_chain)}

ChainIndex(p) == CHOOSE i \in 1..Len(fallback_chain) : fallback_chain[i] = p

\* Families whose adapter is constructed with an API key.
Credentialed == {"openai", "claude"}

\* A provider name no adapter is ever registered under.
UnregisteredName == "xai"

ProviderNames == Chain \cup {UnregisteredName}

\* self._models of the two cloud adapters: id -> "available" flag.
OpenAIModels ==
    [id \in {"gpt-4o", "gpt-3.5-turbo", "o3-mini"} |-> id # "o3-mini"]

ClaudeModels ==
    [id \in {"claude-3-5-sonnet-20241022", "claude-3-haiku-20240307",
             "claude-3-opus-20240229"} |-> id # "claude-3-opus-20240229"]

\* The model a local Ollama daemon serves in this model (one llama3.1 tag).
OllamaTag == "llama3.1:8b"

\* Model ids callers pass to set_provider and set_model: one both Ollama and
\* OpenAI accept, one OpenAI lists as unavailable, one only Claude accepts.
InputModels == {"gpt-3.5-turbo", "o3-mini", "claude-3-haiku-20240307"}

\* Model ids callers pass to chat.
ChatModels == {"gpt-3.5-turbo"}

\* Model ids callers pass to set_provider and set_model while chat calls are
\* in flight (Spec): one Claude and Ollama accept and OpenAI rejects.
SwitchModels == {"claude-3-haiku-20240307"}

\* BaseLLMProvider.initialize: the first catalogue entry becomes current.
FirstModel(p) ==
    IF p = "openai" THEN "gpt-4o" ELSE "claude-3-5-sonnet-20241022"


\* The text an adapter's chat returns when it succeeds; distinct per adapter.
ReplyOf(p) ==
    CASE p = "openai" -> "reply-openai"
      [] p = "claude" -> "reply-claude"
      [] p = "ollama" -> "reply-ollama"

(***************************************************************************)
(* Adapter (BaseLLMProvider and its three subclasses)                      *)
(***************************************************************************)
\* self.api_key of the adapter registered under p: the cloud adapters are
\* constructed with the configured key, OllamaProvider passes None.
adapter_api_key(p) ==
    IF p \in Credentialed /\ p \in api_keys THEN "key" ELSE None

\* BaseLLMProvider.is_available: bool(self.api_key) and self.is_healthy
is_available(p) == adapter_api_key(p) # None /\ is_healthy[p]

\* <Provider>.set_model: whether the adapter accepts the model id.  The cloud
\* adapters accept a catalogue entry flagged available, Ollama accepts any id.
adapter_set_model(p, model) ==
    CASE p = "openai" -> model \in DOMAIN OpenAIModels /\ OpenAIModels[model]
      [] p = "claude" -> model \in DOMAIN ClaudeModels /\ ClaudeModels[model]
      [] p = "ollama" -> TRUE

\* What an adapter's chat can do: return text, return empty content (falsy),
\* or raise.
ChatOutcomes == {"text", "empty", "raise"}

\* `if response:` in ProviderManager.chat
Truthy(outcome) == outcome = "text"

\* What an adapter's health_check can do inside _check_provider_health.
HealthOutcomes == {"healthy", "unhealthy", "raise"}

\* The outcomes of the health checks of the sweeps that chat calls overlap
\* (Spec); an adapter's health_check catches what its request raises.
ReportedHealth == {"healthy", "unhealthy"}

(***************************************************************************)
(* ProviderManager                                                         *)
(***************************************************************************)
\* No health_check_all call is in flight.
NoSweep == <<>>

\* The health_check of an adapter has not completed in the sweep in flight.
Pending == "pending"

NoResult == [text |-> None, provider |-> None, model |-> None, fallback_used |-> FALSE]

\* ProviderManager.__init__ together with a chat call not in flight.
RouterInit ==
    /\ providers = {}
    /\ current_provider = None
    /\ current_model = None
    /\ initialized = FALSE
    /\ is_healthy = [p \in Chain |-> FALSE]
    /\ adapter_model = [p \in Chain |-> None]
    /\ pc = "idle"
    /\ provider_to_use = None
    /\ model_to_use = None
    /\ idx = 0
    /\ invoked = <<>>
    /\ skipped = {}
    /\ result = NoResult
    /\ returned = <<>>
    /\ sweep = NoSweep

\* QualifiesAsDefault asking is_available() of the local adapter as well.
QualifiesAsDefaultByAvailability(p, provs, healthy, models) ==
    /\ p \in provs
    /\ adapter_api_key(p) # None
    /\ healthy[p]

\* _set_default_provider: whether chain entry p qualifies as the default.
QualifiesAsDefault(p, provs, healthy, models) ==
    /\ p \in provs
    /\ IF p = "ollama"
       THEN healthy[p] /\ models[p] # None
       ELSE adapter_api_key(p) # None /\ healthy[p]

\* _set_default_provider: <<current_provider, current_model>> after the call.
SetDefaultProvider(provs, healthy, models) ==
    LET q == {i \in 1..Len(fallback_chain) :
                 QualifiesAsDefault(fallback_chain[i], provs, healthy, models)}
    IN  IF q = {}
        THEN <<current_provider, current_model>>
        ELSE LET i == CHOOSE i \in q : \A j \in q : i <= j
             IN  <<fallback_chain[i], models[fallback_chain[i]]>>

\* initialize keeping a cloud adapter only when its startup check succeeded.
initialize_healthy_only(h, tags) ==
    /\ ~initialized
    /\ returned = <<>>
    /\ LET provs == {p \in Credentialed : p \in api_keys /\ h[p]}
                      \cup (IF h["ollama"] THEN {"ollama"} ELSE {})
           healthy == [p \in Chain |-> p \in provs /\ h[p]]
           models == [p \in Chain |->
                        IF p \notin provs THEN None
                        ELSE IF p = "ollama"
                             THEN (IF tags THEN OllamaTag ELSE None)
                             ELSE FirstModel(p)]
           d == SetDefaultProvider(provs, healthy, models)
       IN  /\ providers' = provs
           /\ is_healthy' = healthy
           /\ adapter_model' = models
           /\ current_provider' = d[1]
           /\ current_model' = d[2]
    /\ initialized' = TRUE
    /\ returned' = <<>>
    /\ UNCHANGED <<api_keys, pc, provider_to_use, model_to_use, idx, invoked,
                   skipped, result>>
    /\ UNCHANGED sessionVars
    /\ UNCHANGED sweep

\* ProviderManager.initialize.  h[p] is the outcome of p's startup health
\* check, tags whether the Ollama daemon lists a model.
initialize(h, tags) ==
    /\ ~initialized
    /\ returned = <<>>
    /\ LET provs == {p \in Credentialed : p \in api_keys}
                      \cup (IF h["ollama"] THEN {"ollama"} ELSE {})
           healthy == [p \in Chain |-> p \in provs /\ h[p]]
           models == [p \in Chain |->
                        IF p \notin provs THEN None
                        ELSE IF p = "ollama"
                             THEN (IF tags THEN OllamaTag ELSE None)
                             ELSE FirstModel(p)]
           d == SetDefaultProvider(provs, healthy, models)
       IN  /\ providers' = provs
           /\ is_healthy' = healthy
           /\ adapter_model' = models
           /\ current_provider' = d[1]
           /\ current_model' = d[2]
    /\ initialized' = TRUE
    /\ returned' = <<>>
    /\ UNCHANGED <<api_keys, pc, provider_to_use, model_to_use, idx, invoked,
                   skipped, result>>
    /\ UNCHANGED sessionVars
    /\ UNCHANGED sweep

\* try_provider testing the adapter's credential only, not its health flag.
try_provider_keyed(p) == p \in providers /\ adapter_api_key(p) # None

\* try_provider without the is_available() test.
try_provider_registered(p) == p \in providers

\* _try_provider: whether the adapter's chat is reached (line 122 guard).
try_provider(p) == p \in providers /\ is_available(p)

\* FallbackCandidate without the `!= provider_to_use` test.
FallbackCandidateRetry(fp, ptu) ==
    /\ fp \in providers
    /\ is_available(fp)

\* chat, lines 97-99: the guard of the fallback loop, for chain entry fp when
\* the provider attempted first was ptu.
FallbackCandidate(fp, ptu) ==
    /\ fp # ptu
    /\ fp \in providers
    /\ is_available(fp)

\* chat, lines 86-91: the dictionary returned when the first attempt succeeds.
PrimaryResult(ptu, mtu) ==
    [text |-> ReplyOf(ptu), provider |-> ptu, model |-> mtu,
     fallback_used |-> FALSE]

\* FallbackResult reporting fallback_used = False.
FallbackResultUnflagged(fallback_provider, fallback_model) ==
    [text |-> ReplyOf(fallback_provider), provider |-> fallback_provider,
     model |-> fallback_model, fallback_used |-> FALSE]

\* chat, lines 106-111: the dictionary returned when a fallback succeeds.
FallbackResult(fallback_provider, fallback_model) ==
    [text |-> ReplyOf(fallback_provider), provider |-> fallback_provider,
     model |-> fallback_model, fallback_used |-> TRUE]

\* AllProvidersFailed returning an empty reply instead of raising.
AllProvidersFailedReturnsEmpty(log, skip) ==
    [pc |-> "returned", idx |-> 0, invoked |-> log, skipped |-> skip,
     result |-> NoResult]

\* chat, line 116: the loop fell off the chain, the call raises.
AllProvidersFailed(log, skip) ==
    [pc |-> "raised", idx |-> 0, invoked |-> log, skipped |-> skip,
     result |-> NoResult]

\* Candidates with the loop starting over from the head of the chain.
CandidatesFromHead(ptu, from) ==
    {j \in 1..Len(fallback_chain) :
        fallback_chain[j] \in providers /\ is_available(fallback_chain[j])}

\* Candidates with the loop ending after the first chain position it looks at.
CandidatesFirstOnly(ptu, from) ==
    {j \in {from} \cap (1..Len(fallback_chain)) :
        FallbackCandidate(fallback_chain[j], ptu) /\ try_provider(fallback_chain[j])}

\* chat, lines 96-113: the chain positions from `from` on that the loop does
\* not pass over.
Candidates(ptu, from) ==
    {j \in from..Len(fallback_chain) :
        FallbackCandidate(fallback_chain[j], ptu) /\ try_provider(fallback_chain[j])}

\* chat, lines 97-99: the chain entries at the positions in `range` that the
\* loop passes over because is_available() is false.  The guard asks it only
\* of an entry that is not provider_to_use and is registered.
PassedOver(ptu, range) ==
    {fallback_chain[j] : j \in {k \in range : /\ fallback_chain[k] # ptu
                                              /\ fallback_chain[k] \in providers
                                              /\ ~is_available(fallback_chain[k])}}

\* FallbackPass invoking each candidate with the router's current model.
FallbackPassRouterModel(ptu, from, log, skip, outcome) ==
    LET c == Candidates(ptu, from)
    IN  IF c = {}
        THEN AllProvidersFailed(log, skip \cup PassedOver(ptu, from..Len(fallback_chain)))
        ELSE LET j == CHOOSE j \in c : \A k \in c : j <= k
                 fallback_provider == fallback_chain[j]
                 fallback_model == current_model
                 log2 == Append(log, [provider |-> fallback_provider,
                                      model |-> fallback_model,
                                      ok |-> Truthy(outcome), fallback |-> TRUE])
                 skip2 == skip \cup PassedOver(ptu, from..(j - 1))
             IN  IF Truthy(outcome)
                 THEN [pc |-> "returned", idx |-> 0, invoked |-> log2,
                       skipped |-> skip2,
                       result |-> FallbackResult(fallback_provider, fallback_model)]
                 ELSE [pc |-> "fallback", idx |-> j + 1, invoked |-> log2,
                       skipped |-> skip2, result |-> NoResult]

\* chat, lines 96-116: the fallback loop runs on from position `from` without
\* suspending until it awaits the next candidate's chat, whose outcome is
\* `outcome`, or until it falls off the chain and raises.  The chat call's
\* state after that: [pc, idx, invoked, skipped, result].
FallbackPass(ptu, from, log, skip, outcome) ==
    LET c == Candidates(ptu, from)
    IN  IF c = {}
        THEN AllProvidersFailed(log, skip \cup PassedOver(ptu, from..Len(fallback_chain)))
        ELSE LET j == CHOOSE j \in c : \A k \in c : j <= k
                 fallback_provider == fallback_chain[j]
                 fallback_model == adapter_model[fallback_provider]
                 log2 == Append(log, [provider |-> fallback_provider,
                                      model |-> fallback_model,
                                      ok |-> Truthy(outcome), fallback |-> TRUE])
                 skip2 == skip \cup PassedOver(ptu, from..(j - 1))
             IN  IF Truthy(outcome)
                 THEN [pc |-> "returned", idx |-> 0, invoked |-> log2,
                       skipped |-> skip2,
                       result |-> FallbackResult(fallback_provider, fallback_model)]
                 ELSE [pc |-> "fallback", idx |-> j + 1, invoked |-> log2,
                       skipped |-> skip2, result |-> NoResult]

\* PrimaryAttempt going straight to the fallback chain.
PrimaryAttemptChainOnly(provider, model, outcome) ==
    FallbackPass(IF provider # None THEN provider ELSE current_provider,
                 1, <<>>, {}, outcome)

\* chat, lines 78-93: resolve the provider and model and attempt it first;
\* when its adapter is not reached the fallback loop starts at once.
PrimaryAttempt(provider, model, outcome) ==
    LET ptu == IF provider # None THEN provider ELSE current_provider
        mtu == IF model # None THEN model ELSE current_model
        attempt == ptu # None /\ ptu \in providers
    IN  IF attempt /\ try_provider(ptu)
        THEN LET log == <<[provider |-> ptu, model |-> mtu,
                           ok |-> Truthy(outcome), fallback |-> FALSE]>>
             IN  IF Truthy(outcome)
                 THEN [pc |-> "returned", idx |-> 0, invoked |-> log,
                       skipped |-> {}, result |-> PrimaryResult(ptu, mtu)]
                 ELSE [pc |-> "fallback", idx |-> 1, invoked |-> log,
                       skipped |-> {}, result |-> NoResult]
        ELSE FallbackPass(ptu, 1, <<>>, IF attempt THEN {ptu} ELSE {}, outcome)

\* ProviderManager.chat from its entry to its first suspension (the await of
\* an adapter's chat, with that chat's outcome), its return or its raise.
chat_call(provider, model, outcome) ==
    /\ initialized
    /\ returned = <<>>
    /\ pc = "idle"
    /\ provider_to_use' = (IF provider # None THEN provider ELSE current_provider)
    /\ model_to_use' = (IF model # None THEN model ELSE current_model)
    /\ LET r == PrimaryAttempt(provider, model, outcome)
       IN  /\ pc' = r.pc
           /\ idx' = r.idx
           /\ invoked' = r.invoked
           /\ skipped' = r.skipped
           /\ result' = r.result
    /\ returned' = <<>>
    /\ UNCHANGED <<api_keys, providers, current_provider, current_model,
                   initialized, is_healthy, adapter_model>>
    /\ UNCHANGED sessionVars
    /\ UNCHANGED sweep

\* chat_fallback marking the adapter that just failed as unhealthy.
chat_fallback_flips_health(outcome) ==
    /\ pc = "fallback"
    /\ returned = <<>>
    /\ LET r == FallbackPass(provider_to_use, idx, invoked, skipped, outcome)
       IN  /\ pc' = r.pc
           /\ idx' = r.idx
           /\ invoked' = r.invoked
           /\ skipped' = r.skipped
           /\ result' = r.result
    /\ is_healthy' = [is_healthy EXCEPT ![invoked[Len(invoked)].provider] = FALSE]
    /\ returned' = <<>>
    /\ UNCHANGED <<api_keys, providers, current_provider, current_model,
                   initialized, adapter_model, provider_to_use, model_to_use>>
    /\ UNCHANGED sessionVars
    /\ UNCHANGED sweep

\* ProviderManager.chat resumed after an adapter's chat failed: on to the next
\* suspension, the return or the raise.
chat_fallback(outcome) ==
    /\ pc = "fallback"
    /\ returned = <<>>
    /\ LET r == FallbackPass(provider_to_use, idx, invoked, skipped, outcome)
       IN  /\ pc' = r.pc
           /\ idx' = r.idx
           /\ invoked' = r.invoked
           /\ skipped' = r.skipped
           /\ result' = r.result
    /\ returned' = <<>>
    /\ UNCHANGED <<api_keys, providers, current_provider, current_model,
                   initialized, is_healthy, adapter_model, provider_to_use,
                   model_to_use>>
    /\ UNCHANGED sessionVars
    /\ UNCHANGED sweep

\* The caller has taken the result (or the exception): the call is over.
chat_done ==
    /\ pc \in {"returned", "raised"}
    /\ returned = <<>>
    /\ pc' = "idle"
    /\ provider_to_use' = None
    /\ model_to_use' = None
    /\ invoked' = <<>>
    /\ skipped' = {}
    /\ result' = NoResult
    /\ returned' = <<>>
    /\ UNCHANGED <<api_keys, providers, current_provider, current_model,
                   initialized, is_healthy, adapter_model, idx>>
    /\ UNCHANGED sessionVars
    /\ UNCHANGED sweep

\* The value a call of set_provider or set_model about `provider` returns;
\* health_check_all is about no provider and returns None.
Returned(call, provider, value) ==
    <<[call |-> call, provider |-> provider, value |-> value]>>

\* set_provider taking the name before it is validated.
set_provider_unvalidated(provider_name, model) ==
    /\ initialized
    /\ returned = <<>>
    /\ current_provider' = provider_name
    /\ returned' = Returned("set_provider", provider_name,
                                provider_name \in providers
                                    /\ is_available(provider_name))
    /\ IF provider_name \notin providers \/ ~is_available(provider_name)
       THEN UNCHANGED <<current_model, adapter_model>>
       ELSE IF model # None /\ adapter_set_model(provider_name, model)
            THEN /\ adapter_model' = [adapter_model EXCEPT ![provider_name] = model]
                 /\ current_model' = model
            ELSE /\ adapter_model' = adapter_model
                 /\ current_model' = adapter_model[provider_name]
    /\ UNCHANGED <<api_keys, providers, initialized, is_healthy, pc,
                   provider_to_use, model_to_use, idx, invoked, skipped, result>>
    /\ UNCHANGED sessionVars
    /\ UNCHANGED sweep

\* set_provider taking the supplied model as current whatever the adapter says.
set_provider_trusts_model(provider_name, model) ==
    /\ initialized
    /\ returned = <<>>
    /\ IF provider_name \notin providers \/ ~is_available(provider_name)
       THEN /\ returned' = Returned("set_provider", provider_name, FALSE)
            /\ UNCHANGED <<current_provider, current_model, adapter_model>>
       ELSE /\ returned' = Returned("set_provider", provider_name, TRUE)
            /\ current_provider' = provider_name
            /\ adapter_model' =
                  IF model # None /\ adapter_set_model(provider_name, model)
                  THEN [adapter_model EXCEPT ![provider_name] = model]
                  ELSE adapter_model
            /\ current_model' = IF model # None THEN model
                                ELSE adapter_model[provider_name]
    /\ UNCHANGED <<api_keys, providers, initialized, is_healthy, pc,
                   provider_to_use, model_to_use, idx, invoked, skipped, result>>
    /\ UNCHANGED sessionVars
    /\ UNCHANGED sweep

\* ProviderManager.set_provider
set_provider(provider_name, model) ==
    /\ initialized
    /\ returned = <<>>
    /\ IF provider_name \notin providers \/ ~is_available(provider_name)
       THEN /\ returned' = Returned("set_provider", provider_name, FALSE)
            /\ UNCHANGED <<current_provider, current_model, adapter_model>>
       ELSE /\ returned' = Returned("set_provider", provider_name, TRUE)
            /\ current_provider' = provider_name
            /\ IF model # None /\ adapter_set_model(provider_name, model)
               THEN /\ adapter_model' = [adapter_model EXCEPT ![provider_name] = model]
                    /\ current_model' = model
               ELSE /\ adapter_model' = adapter_model
                    /\ current_model' = adapter_model[provider_name]
    /\ UNCHANGED <<api_keys, providers, initialized, is_healthy, pc,
                   provider_to_use, model_to_use, idx, invoked, skipped, result>>
    /\ UNCHANGED sessionVars
    /\ UNCHANGED sweep

\* set_model recording the model as the router's whichever provider it was
\* set on.
set_model_any_provider(model, provider) ==
    /\ initialized
    /\ returned = <<>>
    /\ LET ptu == IF provider # None THEN provider ELSE current_provider
       IN  IF ptu \notin providers
           THEN /\ returned' = Returned("set_model", ptu, FALSE)
                /\ UNCHANGED <<current_model, adapter_model>>
           ELSE IF adapter_set_model(ptu, model)
                THEN /\ returned' = Returned("set_model", ptu, TRUE)
                     /\ adapter_model' = [adapter_model EXCEPT ![ptu] = model]
                     /\ current_model' = model
                ELSE /\ returned' = Returned("set_model", ptu, FALSE)
                     /\ UNCHANGED <<current_model, adapter_model>>
    /\ UNCHANGED <<api_keys, providers, current_provider, initialized,
                   is_healthy, pc, provider_to_use, model_to_use, idx, invoked,
                   skipped, result>>
    /\ UNCHANGED sessionVars
    /\ UNCHANGED sweep

\* set_model recording the model as the router's before the adapter is asked.
set_model_assigns_first(model, provider) ==
    /\ initialized
    /\ returned = <<>>
    /\ LET ptu == IF provider # None THEN provider ELSE current_provider
       IN  IF ptu \notin providers
           THEN /\ returned' = Returned("set_model", ptu, FALSE)
                /\ UNCHANGED <<current_model, adapter_model>>
           ELSE /\ returned' =
                      Returned("set_model", ptu, adapter_set_model(ptu, model))
                /\ adapter_model' = IF adapter_set_model(ptu, model)
                                    THEN [adapter_model EXCEPT ![ptu] = model]
                                    ELSE adapter_model
                /\ current_model' = IF ptu = current_provider
                                    THEN model ELSE current_model
    /\ UNCHANGED <<api_keys, providers, current_provider, initialized,
                   is_healthy, pc, provider_to_use, model_to_use, idx, invoked,
                   skipped, result>>
    /\ UNCHANGED sessionVars
    /\ UNCHANGED sweep

\* ProviderManager.set_model
set_model(model, provider) ==
    /\ initialized
    /\ returned = <<>>
    /\ LET ptu == IF provider # None THEN provider ELSE current_provider
       IN  IF ptu \notin providers
           THEN /\ returned' = Returned("set_model", ptu, FALSE)
                /\ UNCHANGED <<current_model, adapter_model>>
           ELSE IF adapter_set_model(ptu, model)
                THEN /\ returned' = Returned("set_model", ptu, TRUE)
                     /\ adapter_model' = [adapter_model EXCEPT ![ptu] = model]
                     /\ current_model' = IF ptu = current_provider
                                         THEN model ELSE current_model
                ELSE /\ returned' = Returned("set_model", ptu, FALSE)
                     /\ UNCHANGED <<current_model, adapter_model>>
    /\ UNCHANGED <<api_keys, providers, current_provider, initialized,
                   is_healthy, pc, provider_to_use, model_to_use, idx, invoked,
                   skipped, result>>
    /\ UNCHANGED sessionVars
    /\ UNCHANGED sweep

\* The caller of set_provider, set_model or health_check_all goes on.
call_done ==
    /\ returned # <<>>
    /\ returned' = <<>>
    /\ UNCHANGED <<api_keys, providers, current_provider, current_model,
                   initialized, is_healthy, adapter_model, pc, provider_to_use,
                   model_to_use, idx, invoked, skipped, result>>
    /\ UNCHANGED sessionVars
    /\ UNCHANGED sweep

\* _check_provider_health, lines 204 and 207: the flag an adapter is left
\* with after its health_check did `outcome`.
HealthFlag(outcome) == outcome = "healthy"

\* Every health_check of sweep s has completed: gather returns.
Gathered(s) == \A p \in DOMAIN s : s[p] # Pending

\* health_check_all from its entry to the await of gather: one
\* _check_provider_health per registered adapter; with no adapter registered
\* it returns at once.
health_check_all ==
    /\ initialized
    /\ returned = <<>>
    /\ sweep = NoSweep
    /\ IF providers = {}
       THEN /\ sweep' = NoSweep
            /\ returned' = Returned("health_check_all", None, NoSweep)
       ELSE /\ sweep' = [p \in providers |-> Pending]
            /\ returned' = <<>>
    /\ UNCHANGED <<api_keys, providers, current_provider, current_model,
                   initialized, is_healthy, adapter_model, pc, provider_to_use,
                   model_to_use, idx, invoked, skipped, result>>
    /\ UNCHANGED sessionVars

\* check_provider_health letting an exception of health_check end the sweep:
\* the flag is not written and the checks still in flight are dropped.
check_provider_health_fail_fast(name, outcome) ==
    /\ returned = <<>>
    /\ name \in DOMAIN sweep
    /\ sweep[name] = Pending
    /\ LET s == [sweep EXCEPT ![name] = outcome]
       IN  IF outcome = "raise"
           THEN /\ is_healthy' = is_healthy
                /\ sweep' = NoSweep
                /\ returned' = Returned("health_check_all", None, s)
           ELSE /\ is_healthy' = [is_healthy EXCEPT ![name] = HealthFlag(outcome)]
                /\ IF Gathered(s)
                   THEN /\ sweep' = NoSweep
                        /\ returned' = Returned("health_check_all", None, s)
                   ELSE /\ sweep' = s
                        /\ returned' = <<>>
    /\ UNCHANGED <<api_keys, providers, current_provider, current_model,
                   initialized, adapter_model, pc, provider_to_use,
                   model_to_use, idx, invoked, skipped, result>>
    /\ UNCHANGED sessionVars

\* _check_provider_health resumed: the health_check of adapter `name` has
\* completed with `outcome` and its flag is written; when it was the last one
\* in flight gather returns, and health_check_all with it.
check_provider_health(name, outcome) ==
    /\ returned = <<>>
    /\ name \in DOMAIN sweep
    /\ sweep[name] = Pending
    /\ is_healthy' = [is_healthy EXCEPT ![name] = HealthFlag(outcome)]
    /\ LET s == [sweep EXCEPT ![name] = outcome]
       IN  IF Gathered(s)
           THEN /\ sweep' = NoSweep
                /\ returned' = Returned("health_check_all", None, s)
           ELSE /\ sweep' = s
                /\ returned' = <<>>
    /\ UNCHANGED <<api_keys, providers, current_provider, current_model,
                   initialized, adapter_model, pc, provider_to_use,
                   model_to_use, idx, invoked, skipped, result>>
    /\ UNCHANGED sessionVars

(***************************************************************************)
(* Session and SessionManager                                              *)
(***************************************************************************)
\* Bounds of the session store model.
MaxSessions == 2
MaxConns == 2
MaxTime == 3

\* Turns appended to one session under HistorySpec; under the dispatcher's
\* specifications, the turns appended after which no message that asks the
\* router is taken (the handlers in flight then still append theirs), and the
\* message handlers in flight at a time.
MaxAppends == 12
MaxTurns == 1
MaxHandlers == 2

\* The identifiers handed out under BroadcastSpec.
MaxIds == 6

\* timedelta(hours=1) in clock ticks (one tick is half an hour).
SessionTimeout == 2

\* add_conversation_turn keeps the last 10 turns.
HistoryCap == 10

\* An identifier no create_session ever returned.
UnknownId == 0

Conns == 1..MaxConns

\* session.websocket = None
NoSocket == 0

\* Close codes of handle_connection; NoCode: the server sent no close code.
InvalidSession == 4004
InternalError == 1011
NoCode == 0

\* The sends of a step are those made when a connection is opened, or those
\* made for a message.
Opening == "(opening)"

\* The last step sent nothing: no envelope is on its way to a client.
NoEmission ==
    [to |-> NoSocket, frame |-> None, envelopes |-> <<>>, tried |-> <<>>]

\* The envelopes a step sent reach the client before the next step is taken.
Quiet == emitted = NoEmission

\* A call that takes no argument of the model.
NoRequest == [type |-> None]

\* The message handler of a connection awaits nothing: handle_connection is
\* not inside _route_message.
NoCall == [frame |-> None, line |-> 0, request |-> NoRequest, sent |-> <<>>]

\* No broadcast_to_all call is in flight.
NoBroadcast ==
    [state |-> "idle", pos |-> 0, to |-> UnknownId, size |-> 0, left |-> 0,
     sent |-> <<>>, failed |-> {}, start |-> <<>>]

\* self.sessions = {}: a dictionary keeps its entries in an array, in the
\* order of insertion; the smallest array has room for 5 entries.
MinUsable == 5

SessionInit ==
    /\ sessions = <<>>
    /\ table = [entries |-> <<>>, usable |-> MinUsable]
    /\ next_id = 1
    /\ created = {}
    /\ removed = {}
    /\ reaped = {}
    /\ now = 0
    /\ conn = [c \in Conns |->
                 [state |-> "new", session |-> UnknownId, code |-> NoCode]]
    /\ detached = <<>>
    /\ calls = [c \in Conns |-> NoCall]
    /\ emitted = NoEmission
    /\ appended = <<>>
    /\ broadcast = NoBroadcast

\* Session.__init__
NewSession ==
    [last_activity |-> now, websocket |-> NoSocket, conversation_history |-> <<>>,
     current_provider |-> None, current_model |-> None]

\* Session.update_activity
update_activity(s) == [s EXCEPT !.last_activity = now]

\* The dictionary add_conversation_turn appends.
Turn(user_message, assistant_response, provider, model) ==
    [timestamp |-> now, user |-> user_message, assistant |-> assistant_response,
     provider |-> provider, model |-> model]

\* add_conversation_turn with the trimming left out.
add_conversation_turn_untrimmed(s, user_message, assistant_response, provider, model) ==
    [s EXCEPT !.conversation_history =
        Append(@, Turn(user_message, assistant_response, provider, model))]

\* Session.add_conversation_turn: append, then keep the last HistoryCap turns.
add_conversation_turn(s, user_message, assistant_response, provider, model) ==
    LET h == Append(s.conversation_history,
                    Turn(user_message, assistant_response, provider, model))
    IN  [s EXCEPT !.conversation_history =
            IF Len(h) > HistoryCap
            THEN SubSeq(h, Len(h) - HistoryCap + 1, Len(h))
            ELSE h]

\* The identifiers a caller can present: those handed out, or an unknown one.
KnownIds == 0..(next_id - 1)

\* SessionManager.get_session: the mapping after the lookup.
GetSession(ss, session_id) ==
    IF session_id \in DOMAIN ss
    THEN [ss EXCEPT ![session_id] = update_activity(ss[session_id])]
    ELSE ss

\* RemoveSession leaving a session in the store while a socket is bound.
RemoveSessionUnlessBound(ss, session_id) ==
    IF session_id \in DOMAIN ss /\ ss[session_id].websocket = NoSocket
    THEN [i \in DOMAIN ss \ {session_id} |-> ss[i]]
    ELSE ss

\* SessionManager.remove_session: the mapping after the call.
RemoveSession(ss, session_id) ==
    IF session_id \in DOMAIN ss
    THEN [i \in DOMAIN ss \ {session_id} |-> ss[i]]
    ELSE ss

\* The size of the array a dictionary is rebuilt with is a power of two, 8 at
\* least: the first one above v, counted up from p.
RECURSIVE PowerOfTwoAbove(_, _)
PowerOfTwoAbove(v, p) == IF p > v THEN p ELSE PowerOfTwoAbove(v, 2 * p)

\* create_session, line 53: self.sessions[session_id] = Session(session_id).
\* The new entry goes to the end of the array; when the array is full the
\* dictionary is rebuilt first, without the holes its deletions left: `live`
\* are the entries that hold a session, in their order, the new array has
\* the size above (3 * used | 8) - 1 and room for two thirds of its size.
Inserted(t, session_id) ==
    IF t.usable > 0
    THEN [entries |-> Append(t.entries, session_id), usable |-> t.usable - 1]
    ELSE LET InStore(i) == i # UnknownId
             live == SelectSeq(t.entries, InStore)
             minsize == 3 * Len(live)
             ored == IF (minsize \div 8) % 2 = 1 THEN minsize ELSE minsize + 8
             size == PowerOfTwoAbove(ored - 1, 8)
         IN  [entries |-> Append(live, session_id),
              usable |-> (2 * size) \div 3 - Len(live) - 1]

\* remove_session, line 70: del self.sessions[session_id] leaves a hole in
\* the place of each entry deleted.
Deleted(t, ids) ==
    [entries |-> [k \in DOMAIN t.entries |->
                     IF t.entries[k] \in ids THEN UnknownId ELSE t.entries[k]],
     usable |-> t.usable]

\* SessionManager.remove_session: the connection whose close() is scheduled.
ClosedBy(ss, session_id) ==
    IF session_id \in DOMAIN ss /\ ss[session_id].websocket # NoSocket
    THEN {ss[session_id].websocket} ELSE {}

\* The connections of cn whose handle_connection is in its loop; those that
\* hold a Session object (the loop, or the except clause that closes the
\* socket after it); and the identifiers of the objects held (the local
\* `session`).
Serving(cn) == {c \in Conns : cn[c].state \in {"established", "closing"}}
Holding(cn) == {c \in Conns : cn[c].state \in {"established", "closing", "aborting"}}
HeldIds(cn) == {cn[c].session : c \in Holding(cn)}

\* Every Session object the program can reach: those of the store, and those
\* that left it while a handle_connection holds them.
Objects ==
    [i \in DOMAIN sessions \cup DOMAIN detached |->
        IF i \in DOMAIN sessions THEN sessions[i] ELSE detached[i]]

\* remove_session, line 70: del self.sessions[session_id] takes the objects
\* `ids` out of the store; the fields of one that a handle_connection holds
\* stay as they are, its socket included.
Detach(ids) ==
    [i \in DOMAIN detached \cup (ids \cap DOMAIN sessions \cap HeldIds(conn)) |->
        Objects[i]]

\* The objects h of the store, and those outside it that the connections cn
\* still hold (an object nobody holds is gone).
Stored(h) == [i \in DOMAIN sessions |-> h[i]]
Kept(h, cn) == [i \in DOMAIN detached \cap HeldIds(cn) |-> h[i]]

\* remove_session, line 69: asyncio.create_task(websocket.close()) for the
\* connections in `targets`.  The close reaches a handler that is in its
\* loop; on a socket whose handler has returned there is nobody to end.
ScheduleClose(cn, targets) ==
    [c \in Conns |-> IF c \in targets /\ cn[c].state = "established"
                     THEN [cn[c] EXCEPT !.state = "closing"]
                     ELSE cn[c]]

\* The log of appended turns without the sessions `ids`, which left the store.
Forgotten(ids) == [i \in DOMAIN appended \ ids |-> appended[i]]

\* SessionManager.get_session_count
get_session_count == Cardinality(DOMAIN sessions)

\* SessionManager.create_session; uuid4 yields an identifier never seen before.
create_session ==
    /\ Quiet
    /\ sessions' = [i \in DOMAIN sessions \cup {next_id} |->
                      IF i = next_id THEN NewSession ELSE sessions[i]]
    /\ table' = Inserted(table, next_id)
    /\ created' = created \cup {next_id}
    /\ next_id' = next_id + 1
    /\ appended' = [i \in DOMAIN appended \cup {next_id} |->
                      IF i = next_id THEN <<>> ELSE appended[i]]
    /\ emitted' = NoEmission
    /\ UNCHANGED <<removed, reaped, now, conn>>
    /\ UNCHANGED <<broadcast, detached, calls>>
    /\ UNCHANGED routerVars

\* SessionManager.get_session
get_session(session_id) ==
    /\ Quiet
    /\ sessions' = GetSession(sessions, session_id)
    /\ emitted' = NoEmission
    /\ UNCHANGED <<table, next_id, created, removed, reaped, now, conn, appended>>
    /\ UNCHANGED <<broadcast, detached, calls>>
    /\ UNCHANGED routerVars

\* SessionManager.remove_session
remove_session(session_id) ==
    /\ Quiet
    /\ conn' = ScheduleClose(conn, ClosedBy(sessions, session_id))
    /\ sessions' = RemoveSession(sessions, session_id)
    /\ table' = Deleted(table, {session_id} \cap DOMAIN sessions)
    /\ detached' = Detach({session_id})
    /\ removed' = removed \cup {session_id}
    /\ appended' = Forgotten({session_id})
    /\ emitted' = NoEmission
    /\ UNCHANGED <<next_id, created, reaped, now>>
    /\ UNCHANGED <<broadcast, calls>>
    /\ UNCHANGED routerVars

\* cleanup_expired_sessions, lines 81-82: remove_session on each collected id,
\* in the order of the list.
RECURSIVE RemoveAll(_, _)
RemoveAll(ss, ids) ==
    IF ids = <<>> THEN ss
    ELSE RemoveAll(RemoveSession(ss, Head(ids)), Tail(ids))

\* The orders in which a list can hold the identifiers in S.
Orderings(S) ==
    {o \in [1..Cardinality(S) -> S] : \A i \in S : \E k \in DOMAIN o : o[k] = i}

\* ExpiredSessions collecting the sessions at the cutoff as well.
ExpiredSessionsInclusive ==
    {i \in DOMAIN sessions : sessions[i].last_activity <= now - SessionTimeout}

\* cleanup_expired_sessions: the identifiers collected in expired_sessions.
ExpiredSessions ==
    {i \in DOMAIN sessions : sessions[i].last_activity < now - SessionTimeout}

\* SessionManager.cleanup_expired_sessions (it never awaits, so one step).
cleanup_expired_sessions ==
    /\ Quiet
    /\ \E expired_sessions \in Orderings(ExpiredSessions) :
          sessions' = RemoveAll(sessions, expired_sessions)
    /\ table' = Deleted(table, ExpiredSessions)
    /\ detached' = Detach(ExpiredSessions)
    /\ appended' = Forgotten(ExpiredSessions)
    /\ conn' = ScheduleClose(conn,
                   UNION {ClosedBy(sessions, i) : i \in ExpiredSessions})
    /\ removed' = removed \cup ExpiredSessions
    /\ reaped' = reaped \cup ExpiredSessions
    /\ emitted' = NoEmission
    /\ UNCHANGED <<next_id, created, now>>
    /\ UNCHANGED <<broadcast, calls>>
    /\ UNCHANGED routerVars

\* Time passes.
Tick ==
    /\ Quiet
    /\ now < MaxTime
    /\ now' = now + 1
    /\ emitted' = NoEmission
    /\ UNCHANGED <<sessions, table, next_id, created, removed, reaped, conn,
                   appended>>
    /\ UNCHANGED <<broadcast, detached, calls>>
    /\ UNCHANGED routerVars

\* session.websocket of every session of the mapping.
Handles(ss) == [i \in DOMAIN ss |-> ss[i].websocket]

\* What a broadcast keeps of the store it started on: the identifiers handed
\* out, the handles bound and where every connection stood.
StoreAsSeen == [next_id |-> next_id, handles |-> Handles(sessions), conn |-> conn]

\* broadcast_to_all, lines 91-94: the for loop over self.sessions.values()
\* runs on from iterator state b until it awaits a send, ends or raises.  The
\* dictionary iterator keeps the index it has reached in the array of
\* entries, the size the dictionary had when the loop started and the number
\* of entries still to yield.  It raises RuntimeError when the dictionary has
\* not that size any more, or when it finds an entry after it has yielded
\* that number; it ends when no entry is left past its index.
RECURSIVE NextSend(_)
NextSend(b) ==
    IF Cardinality(DOMAIN sessions) # b.size
    THEN [b EXCEPT !.state = "raised"]
    ELSE LET rest == {k \in DOMAIN table.entries :
                         k > b.pos /\ table.entries[k] # UnknownId}
         IN  IF rest = {}
             THEN [b EXCEPT !.state = "done"]
             ELSE IF b.left = 0
                  THEN [b EXCEPT !.state = "raised"]
                  ELSE LET k == CHOOSE k \in rest : \A j \in rest : k <= j
                           yielded == [b EXCEPT !.pos = k, !.left = @ - 1,
                                                !.to = table.entries[k]]
                       IN  IF sessions[table.entries[k]].websocket # NoSocket
                           THEN [yielded EXCEPT !.state = "sending"]
                           ELSE NextSend(yielded)

\* broadcast_to_all from its entry to its first send, or to its end when no
\* session has a socket bound.
broadcast_to_all ==
    /\ Quiet
    /\ broadcast.state = "idle"
    /\ broadcast' = NextSend([NoBroadcast EXCEPT
                                 !.size = Cardinality(DOMAIN sessions),
                                 !.left = Cardinality(DOMAIN sessions),
                                 !.start = StoreAsSeen])
    /\ UNCHANGED <<sessions, table, next_id, created, removed, reaped, now, conn,
                   emitted, appended>>
    /\ UNCHANGED <<detached, calls>>
    /\ UNCHANGED routerVars

\* broadcast_to_all resumed, lines 94-96: the send it awaited has completed
\* (ok) or raised, which is logged; the loop goes on to the next send.
broadcast_sent(ok) ==
    /\ Quiet
    /\ broadcast.state = "sending"
    /\ broadcast' = NextSend([broadcast EXCEPT
                                 !.sent = Append(@, broadcast.to),
                                 !.failed = IF ok THEN @
                                            ELSE @ \cup {broadcast.to}])
    /\ UNCHANGED <<sessions, table, next_id, created, removed, reaped, now, conn,
                   emitted, appended>>
    /\ UNCHANGED <<detached, calls>>
    /\ UNCHANGED routerVars

\* The caller of broadcast_to_all goes on, with or without the exception.
broadcast_done ==
    /\ Quiet
    /\ broadcast.state \in {"done", "raised"}
    /\ broadcast' = NoBroadcast
    /\ UNCHANGED <<sessions, table, next_id, created, removed, reaped, now, conn,
                   emitted, appended>>
    /\ UNCHANGED <<detached, calls>>
    /\ UNCHANGED routerVars

(***************************************************************************)
(* WebSocketHandler                                                        *)
(***************************************************************************)
\* Keys of self.message_handlers.
message_handlers ==
    {"ping", "change_provider", "change_model", "audio_data", "text_input",
     "system_status_query", "self_awareness_query", "error_analysis_request"}

\* A "type" value that is a JSON array or object: it cannot be hashed.
UnhashableType == "[]"

\* "type" values of an envelope that name no handler: a string that is no
\* key, and no "type" field at all (message.get gives None).
UnregisteredTypes == {"shutdown", None}

\* An outbound envelope; every one also carries session.last_activity.
Envelope(type) == [type |-> type]

ErrorEnvelope(message) == [type |-> "error", message |-> message]

\* The provider_changed and model_changed envelopes echo what was assigned.
Confirmation(type, provider, model) ==
    [type |-> type, provider |-> provider, model |-> model]

\* The transcription envelope: what was heard, or the error that kept the
\* handler from hearing anything.
Transcription(text, confidence, error) ==
    [type |-> "transcription", text |-> text, confidence |-> confidence,
     error |-> error]

\* The payload the except clause of a monitoring handler sends in the place
\* of the monitor's answer, under the same envelope type: a status report
\* with the status "error", or an answer with the confidence 0 (it has no
\* "status" key).
StandIn(type) ==
    IF type = "system_status_response"
    THEN [type |-> type, status |-> "error"]
    ELSE [type |-> type, confidence |-> 0]

\* What an awaited websocket.send_json does: it completes, or it raises, the
\* exception being WebSocketDisconnect or another one.
SendOutcomes == {"ok", "raise", "disconnect"}

\* await websocket.send_json(envelope), ended with outcome.
send_json(envelope, outcome) == [envelope |-> envelope, outcome |-> outcome]

\* The envelopes whose send completed.
Delivered(tried) ==
    LET Completed(x) == x.outcome = "ok"
        done == SelectSeq(tried, Completed)
    IN  [k \in 1..Len(done) |-> done[k].envelope]

\* The sends of one step on socket c, for a message of type message_type.
Emission(c, message_type, tried) ==
    IF tried = <<>> THEN NoEmission
    ELSE [to |-> c, frame |-> message_type, envelopes |-> Delivered(tried),
          tried |-> tried]

\* websocket.send_json of each envelope in turn, on socket c, when the
\* connection is opened.
Emit(c, envelopes) ==
    Emission(c, Opening,
             [k \in 1..Len(envelopes) |-> send_json(envelopes[k], "ok")])

\* The client takes the envelopes sent to it off the socket.
deliver ==
    /\ ~Quiet
    /\ emitted' = NoEmission
    /\ UNCHANGED <<sessions, table, next_id, created, removed, reaped, now, conn,
                   appended>>
    /\ UNCHANGED <<broadcast, detached, calls>>
    /\ UNCHANGED routerVars

\* handle_connection, line 27: the connection after close(code=4004) with the
\* code of an internal error.
RejectedAsInternalError ==
    [state |-> "rejected", session |-> UnknownId, code |-> InternalError]

\* handle_connection, lines 26-28: the connection after close(code=4004).
Rejected ==
    [state |-> "rejected", session |-> UnknownId, code |-> InvalidSession]

\* handle_connection after it returned; the socket was closed with `code`.
Closed(code) == [state |-> "closed", session |-> UnknownId, code |-> code]

\* handle_connection, line 55, clearing the handle of every session.
ClearHandleEverywhere(ss, session_id) ==
    [i \in DOMAIN ss |-> [ss[i] EXCEPT !.websocket = NoSocket]]

\* handle_connection, line 55, leaving the handle bound.
ClearHandleSkipped(ss, session_id) == ss

\* handle_connection, line 55: session.websocket = None on the session object
\* the connection holds (it may have left the store).
ClearHandle(ss, session_id) ==
    IF session_id \in DOMAIN ss
    THEN [ss EXCEPT ![session_id].websocket = NoSocket]
    ELSE ss

\* handle_connection, lines 23-38: look the session up and bind the socket,
\* or close with 4004.
connect(c, session_id) ==
    /\ Quiet
    /\ conn[c].state = "new"
    /\ IF session_id \in DOMAIN sessions
       THEN /\ sessions' = [GetSession(sessions, session_id)
                               EXCEPT ![session_id].websocket = c]
            /\ conn' = [conn EXCEPT ![c] = [state |-> "established",
                                            session |-> session_id,
                                            code |-> NoCode]]
            /\ emitted' = Emit(c, <<Envelope("connection_established")>>)
       ELSE /\ sessions' = sessions
            /\ conn' = [conn EXCEPT ![c] = Rejected]
            /\ emitted' = Emit(c, <<>>)
    /\ UNCHANGED <<table, next_id, created, removed, reaped, now, appended>>
    /\ UNCHANGED <<broadcast, detached, calls>>
    /\ UNCHANGED routerVars

\* handle_connection, lines 23-38, when the send of connection_established
\* raises, WebSocketDisconnect or another exception: the send is outside the
\* try statement, so handle_connection is left through the exception with the
\* socket bound to the session.
connect_unsent(c, session_id, outcome) ==
    /\ Quiet
    /\ outcome \in SendOutcomes \ {"ok"}
    /\ conn[c].state = "new"
    /\ session_id \in DOMAIN sessions
    /\ sessions' = [GetSession(sessions, session_id)
                       EXCEPT ![session_id].websocket = c]
    /\ conn' = [conn EXCEPT ![c] = Closed(NoCode)]
    /\ emitted' = Emission(c, Opening,
                     <<send_json(Envelope("connection_established"), outcome)>>)
    /\ UNCHANGED <<table, next_id, created, removed, reaped, now, appended>>
    /\ UNCHANGED <<broadcast, detached, calls>>
    /\ UNCHANGED routerVars

\* handle_connection, line 43: the connection is waiting in receive_text; its
\* loop is not inside the handler of a message.
Receiving(c) == c \in Serving(conn) /\ calls[c].line = 0

\* handle_connection, lines 49-55: receive_text raised WebSocketDisconnect
\* (the client went away, or a scheduled close() ran); the finally clause
\* clears the handle of the session object the connection holds.
disconnect(c) ==
    /\ Quiet
    /\ Receiving(c)
    /\ conn' = [conn EXCEPT ![c] = Closed(NoCode)]
    /\ sessions' = Stored(ClearHandle(Objects, conn[c].session))
    /\ detached' = Kept(ClearHandle(Objects, conn[c].session), conn')
    /\ emitted' = Emit(c, <<>>)
    /\ UNCHANGED <<table, next_id, created, removed, reaped, now, appended>>
    /\ UNCHANGED <<broadcast, calls>>
    /\ UNCHANGED routerVars

\* A message without a "provider" field.
Absent == "(absent)"

\* _handle_change_model, line 105: message.get('provider',
\* session.current_provider) gives the session's provider only when the
\* message has no "provider" field; a null field gives None.
ProviderOf(provider, s) ==
    IF provider = Absent THEN s.current_provider ELSE provider

\* The user messages of the turns appended under HistorySpec.
UserTexts == {"hello", "bye"}

\* The "text" of a text_input message.
TypedTexts == {"hello"}

\* The "provider" and "model" of a change_provider or change_model message.
FrameProviders == {"claude"}
FrameModels == {"gpt-4o"}

\* ProviderManager.chat, line 116: what its caller gets when every provider
\* failed.
EveryProviderFailed == [pc |-> "raised", result |-> NoResult]

\* What ProviderManager.chat hands to its caller: the result of the provider
\* it resolved, with the model it resolved (here the one the messages ask for
\* or the first of a cloud adapter); the result of a fallback provider, with
\* that adapter's own model; or the exception raised when every provider
\* failed.
ChatReturns ==
    {[pc |-> "returned", result |-> PrimaryResult(p, m)] :
        p \in Credentialed,
        m \in FrameModels \cup {FirstModel(q) : q \in Credentialed}}
    \cup {[pc |-> "returned", result |-> FallbackResult(p, FirstModel(p))] :
             p \in Credentialed}
    \cup {EveryProviderFailed}

\* What ProviderManager.chat can hand to the caller that made `request`: a
\* primary result has the provider and the model asked for, where one was
\* asked for, and the router's current provider with its own model where
\* neither was; a fallback result is by another provider than the one asked.
ChatReturnsTo(request) ==
    {r \in ChatReturns :
        \/ r.pc = "raised"
        \/ /\ r.pc = "returned"
           /\ IF r.result.fallback_used
              THEN r.result.provider # request.provider
              ELSE /\ request.provider \in {None, r.result.provider}
                   /\ request.model \in {None, r.result.model}
                   /\ (request.provider = None /\ request.model = None)
                         => r.result.model = FirstModel(r.result.provider)}

\* speech_processor.synthesize_speech: audio, a failure result, an exception.
SynthesisOutcomes == {"audio", "failed", "raise"}

\* The response envelope of a chat result.
Response(reply) ==
    [type |-> "response", text |-> reply.text, provider |-> reply.provider,
     model |-> reply.model, fallback_used |-> reply.fallback_used]

\* The arguments of provider_manager.chat(text, session.conversation_history,
\* session.current_provider, session.current_model).
ChatRequest(s, text) ==
    [type |-> "chat", message |-> text, history |-> s.conversation_history,
     provider |-> s.current_provider, model |-> s.current_model]

\* str.strip on the texts of the model.
Strip(text) == IF text = " " THEN "" ELSE text

\* result.get('confidence', 0) > 30
ConfidenceThreshold == 30

\* The "data" field of an audio_data message: none, base64 of a recording,
\* or text that is no base64.
AudioData == {"", "speech", "unreadable"}

\* speech_processor.transcribe_audio: the text and confidence of what Whisper
\* heard; the empty text, confidence 0 and an error when the transcription
\* failed; or an exception.
Heard ==
    [raised : {FALSE}, text : {" ", "hello"},
     confidence : {ConfidenceThreshold, ConfidenceThreshold + 1},
     error : {FALSE}]
    \cup [raised : BOOLEAN, text : {""}, confidence : {0}, error : {TRUE}]

\* The "error" field of the transcription envelopes.
TranscriptionError(heard) == IF heard.error THEN "error" ELSE None

\* Understood passing on every transcription that has a text.
UnderstoodWhateverConfidence(t) ==
    t.text # "" /\ t.error = None

\* _handle_audio_data, line 212: the transcription sent is passed on to the
\* router.
Understood(t) ==
    t.text # "" /\ t.error = None /\ t.confidence > ConfidenceThreshold

(***************************************************************************)
(* A message handler is a coroutine: it runs from one await to the next,   *)
(* and between two of its steps the other coroutines run.  calls[c] is the *)
(* handler of connection c where it is suspended: the type of the message, *)
(* the source line of the call it awaits with what it passed to the call   *)
(* (the envelope of a send, the arguments of provider_manager.chat), and   *)
(* the sends it has made.  An operator handle_... gives where the handler  *)
(* k goes on to from a message received (k.line = 0) or from the end of    *)
(* the call it awaits, with what the call gave (input).                    *)
(***************************************************************************)
\* The handler goes on to await the call at `line`.
Await(k, line, request) ==
    [next |-> [k EXCEPT !.line = line, !.request = request], exc |-> "none"]

\* The handler returns; an exception leaves it.
Return == [next |-> NoCall, exc |-> "none"]
Raise(exc) == [next |-> NoCall, exc |-> exc]

\* LastSend with whatever the send raises swallowed.
LastSendSwallowed(outcome) == Return

\* A send in no try statement, the last statement of its handler.
LastSend(outcome) == IF outcome = "ok" THEN Return ELSE Raise(outcome)

\* _handle_ping
handle_ping(k, input) ==
    IF k.line = 0
    THEN Await(k, 81, Envelope("pong"))
    ELSE LastSend(input)

\* _handle_change_provider: the fields are assigned before the send.
handle_change_provider(k, input) ==
    IF k.line = 0
    THEN Await(k, 95, Confirmation("provider_changed", input.provider,
                                   input.model))
    ELSE LastSend(input)

\* _handle_change_model: the fields are assigned before the send.
handle_change_model(k, input, s) ==
    IF k.line = 0
    THEN Await(k, 111, Confirmation("model_changed",
                                    ProviderOf(input.provider, s), input.model))
    ELSE LastSend(input)

\* _handle_error_analysis_request
handle_error_analysis_request(k, input) ==
    IF k.line = 0
    THEN Await(k, 422, Envelope("error_analysis_response"))
    ELSE LastSend(input)

\* _handle_system_status_query and _handle_self_awareness_query, which await
\* the monitor, the send of its answer and the send of the except clause at
\* the lines `at`: the monitor's answer goes out under the envelope type;
\* when the monitor raises (input is FALSE) or that send does, the except
\* clause sends the stand-in payload, and its send is in no try statement.
handle_monitor_query(k, input, type, at) ==
    CASE k.line = 0 -> Await(k, at[1], NoRequest)
      [] k.line = at[1] ->
            IF input THEN Await(k, at[2], Envelope(type))
            ELSE Await(k, at[3], StandIn(type))
      [] k.line = at[2] ->
            IF input = "ok" THEN Return ELSE Await(k, at[3], StandIn(type))
      [] OTHER -> LastSend(input)

\* _handle_text_input answering before it has the router's result.
handle_text_input_unguarded(k, input, s) ==
    CASE k.line = 0 -> Await(k, 298, ChatRequest(s, input.text))
      [] k.line = 298 -> Await(k, 314, Response(input.result))
      [] k.line = 314 ->
            IF input = "ok" THEN Await(k, 329, NoRequest)
            ELSE Await(k, 354, ErrorEnvelope("Error processing message"))
      [] k.line = 329 ->
            IF input = "audio" THEN Await(k, 335, Envelope("audio_response"))
            ELSE Return
      [] k.line = 335 -> Return
      [] OTHER -> LastSend(input)

\* _handle_text_input with an exception of the synthesis reaching the outer
\* except clause.
handle_text_input_synthesis_fatal(k, input, s) ==
    CASE k.line = 0 -> Await(k, 298, ChatRequest(s, input.text))
      [] k.line = 298 ->
            IF input.pc = "raised"
            THEN Await(k, 354, ErrorEnvelope("Error processing message"))
            ELSE Await(k, 314, Response(input.result))
      [] k.line = 314 ->
            IF input = "ok" THEN Await(k, 329, NoRequest)
            ELSE Await(k, 354, ErrorEnvelope("Error processing message"))
      [] k.line = 329 ->
            IF input = "audio" THEN Await(k, 335, Envelope("audio_response"))
            ELSE IF input = "raise"
                 THEN Await(k, 354, ErrorEnvelope("Error processing message"))
                 ELSE Return
      [] k.line = 335 -> Return
      [] OTHER -> LastSend(input)

\* _handle_text_input: the handler reads the history and the preferences of
\* the session object s and awaits provider_manager.chat (298); with its
\* result it sends the response (314), awaits the synthesis (329) and sends
\* the audio (335).  The except clause of line 352 answers the router's
\* exception and an exception of the response's send with an error envelope
\* (354), whose own send is in no try statement; no exception leaves the try
\* statement around the synthesis and the send of its audio.
handle_text_input(k, input, s) ==
    CASE k.line = 0 -> Await(k, 298, ChatRequest(s, input.text))
      [] k.line = 298 ->
            IF input.pc = "raised"
            THEN Await(k, 354, ErrorEnvelope("Error processing message"))
            ELSE Await(k, 314, Response(input.result))
      [] k.line = 314 ->
            IF input = "ok" THEN Await(k, 329, NoRequest)
            ELSE Await(k, 354, ErrorEnvelope("Error processing message"))
      [] k.line = 329 ->
            IF input = "audio" THEN Await(k, 335, Envelope("audio_response"))
            ELSE Return
      [] k.line = 335 -> Return
      [] OTHER -> LastSend(input)

\* _handle_audio_data, lines 279-287: the outer except clause answers an
\* exception with a transcription envelope that carries the error; its send
\* (281) is in no try statement.
AudioFailure(k) == Await(k, 281, Transcription("", 0, "Audio processing error"))

\* _handle_audio_data: no data is answered at once (124); the recording is
\* decoded, converted by ffmpeg (168, 174; 178 tells of a failed conversion)
\* and transcribed (196), and the transcription is sent (201).  A
\* transcription understood is passed on with the history and preferences of
\* the session object s, read then, to provider_manager.chat (217), whose
\* result is sent (233), synthesized (248) and sent as audio (254).  The
\* inner except clause answers the router's exception and an exception of the
\* response's send with an error envelope (273).
handle_audio_data(k, input, s) ==
    CASE k.line = 0 ->
            IF input.data = ""
            THEN Await(k, 124, Transcription("", 0, "No audio data received"))
            ELSE IF input.data = "unreadable" THEN AudioFailure(k)
            ELSE Await(k, 168, NoRequest)
      [] k.line = 168 ->
            IF input = "ok" THEN Await(k, 174, NoRequest) ELSE AudioFailure(k)
      [] k.line = 174 ->
            IF input = "ok" THEN Await(k, 196, NoRequest)
            ELSE Await(k, 178, Transcription("", 0, "Audio conversion failed"))
      [] k.line = 196 ->
            IF input.raised THEN AudioFailure(k)
            ELSE Await(k, 201, Transcription(Strip(input.text), input.confidence,
                                             TranscriptionError(input)))
      [] k.line = 201 ->
            IF input # "ok" THEN AudioFailure(k)
            ELSE IF Understood(k.request)
                 THEN Await(k, 217, ChatRequest(s, k.request.text))
                 ELSE Return
      [] k.line = 217 ->
            IF input.pc = "raised"
            THEN Await(k, 273, ErrorEnvelope("Error processing voice input"))
            ELSE Await(k, 233, Response(input.result))
      [] k.line = 233 ->
            IF input = "ok" THEN Await(k, 248, NoRequest)
            ELSE Await(k, 273, ErrorEnvelope("Error processing voice input"))
      [] k.line = 248 ->
            IF input = "audio" THEN Await(k, 254, Envelope("audio_response"))
            ELSE Return
      [] k.line = 254 -> Return
      [] k.line \in {124, 178, 273} ->
            IF input = "ok" THEN Return ELSE AudioFailure(k)
      [] OTHER -> LastSend(input)

\* _route_message, line 63: self.message_handlers[message_type](websocket,
\* session, message), the handler of a recognized type, run on the session
\* object s from where k stands.
Handler(k, input, s) ==
    CASE k.frame = "ping" -> handle_ping(k, input)
      [] k.frame = "change_provider" -> handle_change_provider(k, input)
      [] k.frame = "change_model" -> handle_change_model(k, input, s)
      [] k.frame = "audio_data" -> handle_audio_data(k, input, s)
      [] k.frame = "text_input" -> handle_text_input(k, input, s)
      [] k.frame = "system_status_query" ->
            handle_monitor_query(k, input, "system_status_response",
                                 <<368, 372, 379>>)
      [] k.frame = "self_awareness_query" ->
            handle_monitor_query(k, input, "self_awareness_response",
                                 <<397, 399, 407>>)
      [] OTHER -> handle_error_analysis_request(k, input)

\* The type of a message as the error envelopes of _route_message spell it.
Spelled(message_type) == IF message_type = None THEN "None" ELSE message_type

\* _route_message with a handler's exception left uncaught.
route_message_uncaught(k, input, s) ==
    IF k.line \in {66, 73} THEN LastSend(input)
    ELSE IF k.frame = UnhashableType THEN Raise("raise")
    ELSE IF k.frame \in message_handlers
         THEN Handler(k, input, s)
         ELSE Await(k, 73, ErrorEnvelope("Unknown message type: "
                                             \o Spelled(k.frame)))

\* _route_message, run from where k stands: from the message received, or
\* from the end of the call awaited.  The except clause answers a handler's
\* exception with an error envelope (66), whose send is in no try statement,
\* as is the send for a type that names no handler (73);
\* `message_type in self.message_handlers` raises TypeError for a value that
\* cannot be hashed.
route_message(k, input, s) ==
    IF k.line \in {66, 73} THEN LastSend(input)
    ELSE IF k.frame = UnhashableType THEN Raise("raise")
    ELSE IF k.frame \in message_handlers
         THEN IF Handler(k, input, s).exc # "none"
              THEN Await(k, 66, ErrorEnvelope("Error processing "
                                                  \o Spelled(k.frame)))
              ELSE Handler(k, input, s)
         ELSE Await(k, 73, ErrorEnvelope("Unknown message type: "
                                             \o Spelled(k.frame)))

\* Held with the handler's assignments made on every session of the store.
HeldByEverySession(c, update) ==
    [i \in DOMAIN Objects |->
        [Objects[i] EXCEPT !.current_provider = update.current_provider,
                           !.current_model = update.current_model]]

\* The Session object the handle_connection of connection c holds: the one
\* get_session gave it, in the store or not.
HeldSession(c) == Objects[conn[c].session]

\* The Session objects after the handler of connection c left the one it
\* holds as `update`.
Held(c, update) == [Objects EXCEPT ![conn[c].session] = update]

\* LoopTurn leaving the loop whenever an error envelope was sent.
LoopTurnStopsOnError(c, t, ss) ==
    /\ Quiet
    /\ c \in Serving(conn)
    /\ calls' = [calls EXCEPT ![c] = t.next]
    /\ CASE t.exc = "disconnect"
               \/ (t.exc = "none" /\ calls[c].request.type = "error"
                      /\ t.next.line = 0) ->
               /\ conn' = [conn EXCEPT ![c] = Closed(NoCode)]
               /\ sessions' = Stored(ClearHandle(ss, conn[c].session))
               /\ detached' = Kept(ClearHandle(ss, conn[c].session), conn')
         [] t.exc = "raise" ->
               /\ conn' = [conn EXCEPT ![c].state = "aborting",
                                       ![c].code = InternalError]
               /\ sessions' = Stored(ss)
               /\ detached' = Kept(ss, conn')
         [] OTHER ->
               /\ conn' = conn
               /\ sessions' = Stored(ss)
               /\ detached' = Kept(ss, conn')
    /\ UNCHANGED <<table, next_id, created, removed, reaped, now>>
    /\ UNCHANGED broadcast
    /\ UNCHANGED routerVars

\* handle_connection, lines 41-55: the loop on connection c after
\* _route_message ran on to t, the handler having left the Session objects
\* as ss.  When an exception leaves _route_message the loop ends: for
\* WebSocketDisconnect the finally clause clears the handle of the object
\* the connection holds at once; for every other exception the handler
\* awaits websocket.close(code=1011) first (line 53).
LoopTurn(c, t, ss) ==
    /\ Quiet
    /\ c \in Serving(conn)
    /\ calls' = [calls EXCEPT ![c] = t.next]
    /\ CASE t.exc = "disconnect" ->
               /\ conn' = [conn EXCEPT ![c] = Closed(NoCode)]
               /\ sessions' = Stored(ClearHandle(ss, conn[c].session))
               /\ detached' = Kept(ClearHandle(ss, conn[c].session), conn')
         [] t.exc = "raise" ->
               /\ conn' = [conn EXCEPT ![c].state = "aborting",
                                       ![c].code = InternalError]
               /\ sessions' = Stored(ss)
               /\ detached' = Kept(ss, conn')
         [] OTHER ->
               /\ conn' = conn
               /\ sessions' = Stored(ss)
               /\ detached' = Kept(ss, conn')
    /\ UNCHANGED <<table, next_id, created, removed, reaped, now>>
    /\ UNCHANGED broadcast
    /\ UNCHANGED routerVars

\* handle_connection, lines 53-55: the await of websocket.close(code=1011)
\* ends, and the finally clause clears the handle of the session object the
\* connection holds.
close_awaited(c) ==
    /\ Quiet
    /\ conn[c].state = "aborting"
    /\ conn' = [conn EXCEPT ![c] = Closed(InternalError)]
    /\ sessions' = Stored(ClearHandle(Objects, conn[c].session))
    /\ detached' = Kept(ClearHandle(Objects, conn[c].session), conn')
    /\ emitted' = NoEmission
    /\ UNCHANGED <<table, next_id, created, removed, reaped, now, appended>>
    /\ UNCHANGED <<broadcast, calls>>
    /\ UNCHANGED routerVars

\* handle_connection, lines 43-47: a message is received on connection c and
\* _route_message runs to its first await, the handler having left the
\* Session objects as ss.
received(c, message, ss) ==
    /\ Receiving(c)
    /\ LoopTurn(c, route_message([NoCall EXCEPT !.frame = message.type], message,
                                 HeldSession(c)),
                ss)
    /\ emitted' = NoEmission
    /\ UNCHANGED appended

\* handle_connection, line 44 and _route_message, line 59: the text received
\* is no JSON, or no JSON object; the exception ends the loop.
undecodable(c) ==
    /\ Receiving(c)
    /\ LoopTurn(c, Raise("raise"), Objects)
    /\ emitted' = NoEmission
    /\ UNCHANGED appended

\* _route_message, line 61: the "type" of the message cannot be hashed.
unhashable_type(c) == received(c, [type |-> UnhashableType], Objects)

\* _route_message, lines 71-77.
unknown_type(c, message_type) ==
    /\ message_type \in UnregisteredTypes
    /\ received(c, [type |-> message_type], Objects)

ping(c) == received(c, [type |-> "ping"], Objects)

change_provider(c, provider, model) ==
    received(c, [type |-> "change_provider", provider |-> provider,
                 model |-> model],
             Held(c, [HeldSession(c) EXCEPT
                         !.current_provider = provider, !.current_model = model]))

change_model(c, model, provider) ==
    received(c, [type |-> "change_model", provider |-> provider, model |-> model],
             Held(c, [HeldSession(c) EXCEPT
                         !.current_model = model,
                         !.current_provider = ProviderOf(provider, HeldSession(c))]))

error_analysis_request(c) ==
    received(c, [type |-> "error_analysis_request"], Objects)

system_status_query(c) == received(c, [type |-> "system_status_query"], Objects)

self_awareness_query(c) == received(c, [type |-> "self_awareness_query"], Objects)

\* How many turns the histories of the Session objects `ids` hold.
RECURSIVE TurnsAppended(_)
TurnsAppended(ids) ==
    IF ids = {} THEN 0
    ELSE LET i == CHOOSE i \in ids : TRUE
         IN  Len(Objects[i].conversation_history) + TurnsAppended(ids \ {i})

text_input(c, text) ==
    /\ TurnsAppended(DOMAIN Objects) < MaxTurns
    /\ received(c, [type |-> "text_input", text |-> text], Objects)

audio_data(c, data) ==
    /\ TurnsAppended(DOMAIN Objects) < MaxTurns
    /\ received(c, [type |-> "audio_data", data |-> data], Objects)

\* The lines at which a handler awaits websocket.send_json.
SendLines ==
    {66, 73, 81, 95, 111, 124, 178, 201, 233, 254, 273, 281, 314, 335, 354,
     372, 379, 399, 407, 422}

\* The handler of connection c is resumed: the call it awaits ended with
\* input, and _route_message runs on to the next await, the handler having
\* left the Session objects as ss.
resumed(c, input, ss) ==
    /\ calls[c].line # 0
    /\ LoopTurn(c, route_message(calls[c], input, HeldSession(c)), ss)

\* The websocket.send_json a handler awaits ends: the envelope is sent, or
\* the send raises.
sent(c, outcome) ==
    /\ calls[c].line \in SendLines
    /\ c \in Serving(conn)
    /\ LoopTurn(c, route_message(
                       [calls[c] EXCEPT !.sent =
                           Append(@, send_json(calls[c].request, outcome))],
                       outcome, HeldSession(c)),
                Objects)
    /\ emitted' = Emission(c, calls[c].frame,
                           <<send_json(calls[c].request, outcome)>>)
    /\ UNCHANGED appended

\* The log of appended turns, after the handler of connection c called
\* add_conversation_turn with `turns` on the session object it holds.
Logged(c, turns) ==
    IF conn[c].session \in DOMAIN sessions
    THEN [appended EXCEPT ![conn[c].session] = @ \o turns]
    ELSE appended

\* _handle_text_input, lines 298-314, and _handle_audio_data, lines 217-233:
\* the await of provider_manager.chat ends with r; with a result, the turn
\* is appended to the session object the connection holds before the
\* response is sent.
chat_returned(c, r) ==
    /\ calls[c].line \in {217, 298}
    /\ LET text == calls[c].request.message
           s == HeldSession(c)
       IN  IF r.pc = "raised"
           THEN /\ resumed(c, r, Objects)
                /\ appended' = appended
           ELSE /\ resumed(c, r, Held(c, add_conversation_turn(s, text,
                              r.result.text, r.result.provider, r.result.model)))
                /\ appended' = Logged(c, <<Turn(text, r.result.text,
                                  r.result.provider, r.result.model)>>)
    /\ emitted' = NoEmission

\* The await of speech_processor.synthesize_speech ends.
synthesized(c, tts) ==
    /\ calls[c].line \in {248, 329}
    /\ resumed(c, tts, Objects)
    /\ emitted' = NoEmission
    /\ UNCHANGED appended

\* The await of the ffmpeg process ends: asyncio.create_subprocess_exec,
\* line 168, starts the process or raises; process.communicate(), line 174,
\* ends with ffmpeg having converted the recording or having returned
\* another code than 0.
converted(c, outcome) ==
    /\ calls[c].line \in {168, 174}
    /\ outcome \in (IF calls[c].line = 168 THEN {"ok", "raise"}
                                           ELSE {"ok", "failed"})
    /\ resumed(c, outcome, Objects)
    /\ emitted' = NoEmission
    /\ UNCHANGED appended

\* The await of speech_processor.transcribe_audio ends.
transcribed(c, heard) ==
    /\ calls[c].line = 196
    /\ resumed(c, heard, Objects)
    /\ emitted' = NoEmission
    /\ UNCHANGED appended

\* The await of the monitor ends: with its answer, or with an exception.
monitored(c, answered) ==
    /\ calls[c].line \in {368, 397}
    /\ resumed(c, answered, Objects)
    /\ emitted' = NoEmission
    /\ UNCHANGED appended

\* The handlers in flight.
Busy == {c \in Conns : calls[c].line # 0}

\* The connections that take a message: those waiting for one while fewer
\* than MaxHandlers handlers are in flight; a message whose handler awaits
\* the router, the speech processor or the monitor is taken while no handler
\* is in flight.
Listening ==
    {c \in Conns : Quiet /\ Receiving(c) /\ Cardinality(Busy) < MaxHandlers}
ListeningAlone == {c \in Listening : Busy = {}}

\* The connections whose handler awaits a call made at one of `lines`.
Awaiting(lines) == {c \in Conns : Quiet /\ calls[c].line \in lines}

\* Session.add_conversation_turn called on a session of the store.
append_turn(session_id, user_message, r) ==
    /\ session_id \in DOMAIN sessions
    /\ Len(appended[session_id]) < MaxAppends
    /\ sessions' = [sessions EXCEPT ![session_id] =
                       add_conversation_turn(@, user_message, r.text,
                                             r.provider, r.model)]
    /\ appended' = [appended EXCEPT ![session_id] =
                       Append(@, Turn(user_message, r.text, r.provider, r.model))]
    /\ emitted' = NoEmission
    /\ UNCHANGED <<table, next_id, created, removed, reaped, now, conn>>
    /\ UNCHANGED <<broadcast, detached, calls>>
    /\ UNCHANGED routerVars

(***************************************************************************)
(* Specifications                                                          *)
(***************************************************************************)
\* The provider router: the configuration is whatever key files exist.
Init ==
    /\ api_keys \in SUBSET Credentialed
    /\ RouterInit
    /\ SessionInit

Next ==
    \/ \E h \in [Chain -> BOOLEAN], tags \in BOOLEAN : initialize(h, tags)
    \/ \E provider \in ProviderNames \cup {None}, model \in ChatModels \cup {None},
          outcome \in ChatOutcomes : chat_call(provider, model, outcome)
    \/ \E outcome \in ChatOutcomes : chat_fallback(outcome)
    \/ chat_done
    \/ \E provider_name \in ProviderNames, model \in SwitchModels \cup {None} :
          set_provider(provider_name, model)
    \/ \E model \in SwitchModels, provider \in ProviderNames \cup {None} :
          set_model(model, provider)
    \/ call_done
    \/ health_check_all
    \/ \E name \in Chain, outcome \in ReportedHealth :
          check_provider_health(name, outcome)

Spec == Init /\ [][Next]_vars

\* The session store, with connections that bind, ping, state a preference
\* and go away.
StoreInit ==
    /\ api_keys = {}
    /\ RouterInit
    /\ SessionInit

SessionNext ==
    \/ next_id <= MaxSessions /\ create_session
    \/ \E session_id \in KnownIds : get_session(session_id)
    \/ \E session_id \in KnownIds : remove_session(session_id)
    \/ cleanup_expired_sessions
    \/ Tick
    \/ \E c \in Conns, session_id \in KnownIds : connect(c, session_id)
    \/ \E c \in Conns : disconnect(c)
    \/ \E c \in Listening : ping(c)
    \/ \E c \in Listening, provider \in FrameProviders, model \in FrameModels :
          change_provider(c, provider, model)
    \/ \E c \in Awaiting(SendLines) : sent(c, "ok")
    \/ deliver

SessionSpec == StoreInit /\ [][SessionNext]_vars

\* The connection dispatcher: every message kind on the connections of the
\* sessions created, every awaited call ending in every way, while sessions
\* are created and removed (cleanup_expired_sessions removes a session by
\* the remove_session call of line 82), connections are opened and go away
\* and the close of a failed connection ends.
DispatchNext ==
    \/ next_id <= MaxSessions /\ create_session
    \/ \E session_id \in DOMAIN sessions : remove_session(session_id)
    \/ \E c \in Conns, session_id \in DOMAIN sessions : connect(c, session_id)
    \/ \E c \in Conns, session_id \in DOMAIN sessions,
          outcome \in SendOutcomes \ {"ok"} :
          connect_unsent(c, session_id, outcome)
    \/ \E c \in Conns : disconnect(c)
    \/ \E c \in Conns : close_awaited(c)
    \/ deliver
    \/ \E c \in ListeningAlone, message_type \in UnregisteredTypes :
          unknown_type(c, message_type)
    \/ \E c \in Listening : unhashable_type(c)
    \/ \E c \in Listening : undecodable(c)
    \/ \E c \in Listening : ping(c)
    \/ \E c \in Listening, provider \in FrameProviders, model \in FrameModels :
          change_provider(c, provider, model)
    \/ \E c \in Listening, model \in FrameModels,
          provider \in FrameProviders \cup {None, Absent} :
          change_model(c, model, provider)
    \/ \E c \in ListeningAlone, data \in AudioData : audio_data(c, data)
    \/ \E c \in ListeningAlone, text \in TypedTexts : text_input(c, text)
    \/ \E c \in ListeningAlone : system_status_query(c)
    \/ \E c \in ListeningAlone : self_awareness_query(c)
    \/ \E c \in ListeningAlone : error_analysis_request(c)
    \/ \E c \in Awaiting(SendLines), outcome \in SendOutcomes : sent(c, outcome)
    \/ \E c \in Awaiting({217, 298}) :
          \E r \in ChatReturnsTo(calls[c].request) : chat_returned(c, r)
    \/ \E c \in Awaiting({248, 329}), tts \in SynthesisOutcomes :
          synthesized(c, tts)
    \/ \E c \in Awaiting({168, 174}), outcome \in {"ok", "failed", "raise"} :
          converted(c, outcome)
    \/ \E c \in Awaiting({196}), heard \in Heard :
          transcribed(c, heard)
    \/ \E c \in Awaiting({368, 397}), answered \in BOOLEAN :
          monitored(c, answered)

DispatchSpec == StoreInit /\ [][DispatchNext]_vars

\* The router's registry, defaults and health flags with no chat call in
\* flight.
RegistryNext ==
    \/ \E h \in [Chain -> BOOLEAN], tags \in BOOLEAN : initialize(h, tags)
    \/ \E provider_name \in ProviderNames, model \in InputModels \cup {None} :
          set_provider(provider_name, model)
    \/ \E model \in InputModels, provider \in ProviderNames \cup {None} :
          set_model(model, provider)
    \/ call_done
    \/ health_check_all
    \/ \E name \in Chain, outcome \in HealthOutcomes :
          check_provider_health(name, outcome)

RegistrySpec == Init /\ [][RegistryNext]_vars

\* A store that has handed out three identifiers and removed their sessions:
\* the array of the dictionary holds three deleted entries.
BroadcastInit ==
    /\ api_keys = {}
    /\ RouterInit
    /\ now = 0
    /\ sessions = <<>>
    /\ table = [entries |-> <<UnknownId, UnknownId, UnknownId>>,
                usable |-> MinUsable - 3]
    /\ next_id = 4
    /\ created = {1, 2, 3}
    /\ removed = {1, 2, 3}
    /\ reaped = {}
    /\ conn = [c \in Conns |->
                 [state |-> "new", session |-> UnknownId, code |-> NoCode]]
    /\ detached = <<>>
    /\ calls = [c \in Conns |-> NoCall]
    /\ emitted = NoEmission
    /\ appended = <<>>
    /\ broadcast = NoBroadcast

\* A broadcast over the store while sessions are created, removed and reaped,
\* connections bind, fail and go away, and sends fail.
BroadcastNext ==
    \/ next_id <= MaxIds /\ create_session
    \/ \E session_id \in DOMAIN sessions : remove_session(session_id)
    \/ cleanup_expired_sessions
    \/ Tick
    \/ \E c \in Conns, session_id \in DOMAIN sessions : connect(c, session_id)
    \/ \E c \in Conns, session_id \in DOMAIN sessions,
          outcome \in SendOutcomes \ {"ok"} :
          connect_unsent(c, session_id, outcome)
    \/ \E c \in Conns : disconnect(c)
    \/ deliver
    \/ broadcast_to_all
    \/ \E ok \in BOOLEAN : broadcast_sent(ok)
    \/ broadcast_done

BroadcastSpec == BroadcastInit /\ [][BroadcastNext]_vars

\* The router with its registry and the sessions with their preferences:
\* connections state preferences while the router is initialized and its
\* provider and model are switched.
PreferenceNext ==
    \/ \E h \in [Chain -> BOOLEAN], tags \in BOOLEAN : initialize(h, tags)
    \/ \E provider_name \in ProviderNames, model \in FrameModels \cup {None} :
          set_provider(provider_name, model)
    \/ call_done
    \/ next_id <= MaxSessions /\ create_session
    \/ \E c \in Conns, session_id \in DOMAIN sessions : connect(c, session_id)
    \/ \E c \in Conns : disconnect(c)
    \/ \E c \in Conns : close_awaited(c)
    \/ deliver
    \/ \E c \in Listening, provider \in FrameProviders, model \in FrameModels :
          change_provider(c, provider, model)
    \/ \E c \in Listening, model \in FrameModels,
          provider \in FrameProviders \cup {None, Absent} :
          change_model(c, model, provider)
    \/ \E c \in Awaiting(SendLines), outcome \in SendOutcomes : sent(c, outcome)

PreferenceSpec == Init /\ [][PreferenceNext]_vars

\* One Session object and the turns appended to it.
HistoryInit ==
    /\ api_keys = {}
    /\ RouterInit
    /\ now = 0
    /\ sessions = [i \in {1} |-> NewSession]
    /\ table = Inserted([entries |-> <<>>, usable |-> MinUsable], 1)
    /\ next_id = 2
    /\ created = {1}
    /\ removed = {}
    /\ reaped = {}
    /\ conn = [c \in Conns |->
                 [state |-> "new", session |-> UnknownId, code |-> NoCode]]
    /\ detached = <<>>
    /\ calls = [c \in Conns |-> NoCall]
    /\ emitted = NoEmission
    /\ appended = [i \in {1} |-> <<>>]
    /\ broadcast = NoBroadcast

HistoryNext ==
    \E session_id \in DOMAIN sessions, user_message \in UserTexts :
        append_turn(session_id, user_message, PrimaryResult("openai", "gpt-4o"))

HistorySpec == HistoryInit /\ [][HistoryNext]_vars

(* Properties                                                              *)
(***************************************************************************)
\* Providers whose adapter chat was invoked in the chat call in flight.
InvokedProviders == {invoked[i].provider : i \in 1..Len(invoked)}

\* How often p's adapter chat was invoked in the chat call in flight.
TimesInvoked(p) == Cardinality({i \in 1..Len(invoked) : invoked[i].provider = p})

\* C1: after every sequence of create_session / get_session / remove_session
\* calls (get and remove on unknown or already removed identifiers included),
\* get_session_count() is the number of sessions created and not yet removed.
C1_CountIsCreatedMinusRemoved ==
    get_session_count = Cardinality(created \ removed)

\* C1 witness: sessions were created, one of them was removed, remove was also
\* called with an identifier never created, and a session is still live.
C1_Witness ==
    /\ UnknownId \in removed
    /\ created \cap removed # {}
    /\ get_session_count >= 1

\* C2 (as amended): when a provider C succeeds after at least one provider was
\* tried before it, chat returns C's text with provider = C and
\* fallback_used = true, every provider tried before C failed and was invoked
\* exactly once, and C's is the last invocation of the call.
C2_FallbackReturnsFirstSuccess ==
    \A i \in 2..Len(invoked) :
        invoked[i].ok =>
            LET C == invoked[i].provider
            IN  /\ pc = "returned"
                /\ result.text = ReplyOf(C)
                /\ result.provider = C
                /\ result.fallback_used
                /\ \A j \in 1..(i - 1) :
                       ~invoked[j].ok /\ TimesInvoked(invoked[j].provider) = 1
                /\ i = Len(invoked)

\* C2 as stated: as above, and no provider placed after C in the fallback
\* chain has been invoked.
C2_NoProviderAfterCInChainInvoked ==
    \A i \in 2..Len(invoked) :
        invoked[i].ok =>
            LET C == invoked[i].provider
            IN  /\ pc = "returned"
                /\ result.text = ReplyOf(C)
                /\ result.provider = C
                /\ result.fallback_used
                /\ \A j \in 1..(i - 1) :
                       ~invoked[j].ok /\ TimesInvoked(invoked[j].provider) = 1
                /\ \A q \in InvokedProviders : ChainIndex(q) <= ChainIndex(C)

\* C2 witness: the requested provider claude failed and openai, which comes
\* before it in the chain, answered.
C2_Witness ==
    /\ pc = "returned"
    /\ Len(invoked) = 2
    /\ invoked[1].provider = "claude" /\ ~invoked[1].ok
    /\ result.provider = "openai"

\* C3: with no provider registered, every chat call raises the
\* all-providers-failed error and no adapter's chat is invoked.
C3_NoProviderRegisteredRaises ==
    (providers = {} /\ pc # "idle") => (pc = "raised" /\ invoked = <<>>)

\* C3 witness: a call that named a provider raised with nothing registered.
C3_Witness ==
    /\ initialized
    /\ providers = {}
    /\ pc = "raised"
    /\ provider_to_use = "openai"
    /\ model_to_use # None

\* C4: within one chat call no adapter is invoked twice, an attempt outside
\* the fallback pass is the first one, and the fallback pass invokes adapters
\* in the chain order openai, claude, ollama.
C4_OnceEachInChainOrder ==
    /\ \A p \in InvokedProviders : TimesInvoked(p) = 1
    /\ \A i \in 1..Len(invoked) : ~invoked[i].fallback => i = 1
    /\ \A i, j \in 1..Len(invoked) :
           (i < j /\ invoked[i].fallback /\ invoked[j].fallback)
               => ChainIndex(invoked[i].provider) < ChainIndex(invoked[j].provider)

\* C4 witness: two adapters were invoked by the fallback pass of one call.
C4_Witness ==
    /\ Len(invoked) = 2
    /\ invoked[1].fallback
    /\ invoked[2].fallback

\* C5 (as amended): when the resolved provider (the requested one, or the
\* router's current default when none is requested) is registered and its
\* is_available() holds, its adapter's chat is the first invocation of the
\* call; later steps of the call only append to the invocations.
C5_AvailableResolvedProviderFirst ==
    [][ /\ (pc = "idle" /\ pc' # "idle" /\ provider_to_use' \in providers
               /\ is_available(provider_to_use'))
           => (invoked' # <<>> /\ invoked'[1].provider = provider_to_use')
        /\ (pc # "idle" /\ pc' # "idle")
           => (Len(invoked') >= Len(invoked)
                 /\ SubSeq(invoked', 1, Len(invoked)) = invoked) ]_vars

\* C5 as stated: when the resolved provider is registered, no other adapter
\* is invoked before it.  Read here for a cloud adapter as the resolved
\* provider; what the claim says of the local adapter rests on C8.
C5_RegisteredResolvedProviderFirst ==
    (pc # "idle" /\ provider_to_use \in providers \cap Credentialed
        /\ invoked # <<>>)
        => invoked[1].provider = provider_to_use

\* C5 witness: the default provider was attempted first and failed, then a
\* fallback was invoked.
C5_Witness ==
    /\ pc # "idle"
    /\ Len(invoked) = 2
    /\ provider_to_use = "openai"
    /\ invoked[1].provider = "openai" /\ ~invoked[1].fallback
    /\ invoked[2].fallback

\* C6 (as amended): chat raises only when every registered provider either
\* had its adapter invoked in this call and failed, or was passed over because
\* its is_available() was false when its turn came (or nothing is registered).
C6_RaisesOnlyWhenAllTriedOrUnavailable ==
    pc = "raised" =>
        \A p \in providers :
            \/ \E i \in 1..Len(invoked) : invoked[i].provider = p /\ ~invoked[i].ok
            \/ p \in skipped

\* C6 as stated: chat raises only when every registered provider had its
\* adapter invoked in this call and failed, or nothing is registered.  Read
\* here for the cloud adapters; what the claim says of the local adapter
\* rests on C8.
C6_RaisesOnlyWhenAllInvoked ==
    pc = "raised" =>
        \/ providers = {}
        \/ \A p \in providers \cap Credentialed :
               \E i \in 1..Len(invoked) : invoked[i].provider = p /\ ~invoked[i].ok

\* C6 witness: the call raised after one adapter failed and another registered
\* one was passed over as unavailable.
C6_Witness ==
    /\ pc = "raised"
    /\ Len(invoked) = 1
    /\ skipped # {}
    /\ skipped \cap Credentialed # {}

\* C7: every successful chat result has fallback_used = (the provider that
\* produced the text differs from the resolved provider).
C7_FallbackUsedIffOtherProvider ==
    pc = "returned" =>
        /\ result.provider \in InvokedProviders
        /\ result.fallback_used = (result.provider # provider_to_use)

\* C7 witness: a registered provider was requested and another one answered.
C7_Witness ==
    /\ pc = "returned"
    /\ provider_to_use \in providers
    /\ result.fallback_used
    /\ result.provider # provider_to_use

\* C8 as stated: for every adapter, is_available() is true exactly when (a
\* credential is present, or the provider requires none) and the health flag
\* is true.
C8_AvailableIffCredentialOkAndHealthy ==
    \A p \in providers :
        is_available(p) = ((p \in api_keys \/ p \notin Credentialed) /\ is_healthy[p])

\* A step of the chat call in flight.
ChatStep == pc' # pc \/ invoked' # invoked

\* C9: a step of chat leaves every health flag, the router's current provider
\* and model and every adapter's current model unchanged; a health flag
\* changes only in initialize and health_check_all.
C9_ChatChangesNoRouterState ==
    [][ /\ ChatStep => UNCHANGED <<is_healthy, current_provider, current_model,
                                   adapter_model>>
        /\ (is_healthy' # is_healthy)
           => \/ (~initialized /\ initialized')
              \/ \E name \in Chain, outcome \in HealthOutcomes :
                    check_provider_health(name, outcome) ]_vars

\* C9 witness: a call raised after both cloud adapters failed, and both are
\* still flagged healthy.
C9_Witness ==
    /\ pc = "raised"
    /\ Len(invoked) = 2
    /\ is_healthy["openai"]
    /\ is_healthy["claude"]

\* C10: the router's current provider is unset or a registered adapter.
C10_CurrentProviderRegistered ==
    current_provider = None \/ current_provider \in providers

\* C10 witness: set_provider moved the router from the default to claude with
\* a model of its own.
C10_Witness ==
    /\ current_provider = "claude"
    /\ current_model = "claude-3-haiku-20240307"
    /\ is_healthy["openai"]

\* C11: a session's last_activity never decreases, and it is set to the
\* current time by every successful get_session and by every inbound message
\* whose handler completes on the session's connection.
C11_ActivityAdvancedByGetAndByMessages ==
    [][ /\ \A i \in DOMAIN sessions \cap DOMAIN sessions' :
              sessions'[i].last_activity >= sessions[i].last_activity
        /\ \A session_id \in DOMAIN sessions :
              get_session(session_id) => sessions'[session_id].last_activity = now
        /\ \A c \in Conns :
              (calls[c].frame = "ping" /\ sent(c, "ok")
                  /\ conn[c].session \in DOMAIN sessions)
                  => sessions'[conn[c].session].last_activity = now ]_vars

\* C12: a session whose connection has just handled an inbound message is
\* not one the reaper collects: cleanup_expired_sessions, whenever it runs
\* next without time having passed, leaves the session in the store.
C12_MessageKeepsSessionFromReaper ==
    [][ \A c \in Conns :
           (calls[c].frame = "ping" /\ sent(c, "ok")
               /\ conn[c].session \in DOMAIN sessions)
               => ~(sessions'[conn[c].session].last_activity
                        < now' - SessionTimeout) ]_vars

\* C13: a run of cleanup_expired_sessions removes exactly the sessions whose
\* last_activity is earlier than now - 1 hour, in whatever order it goes
\* through them, and leaves the others as they are; and a session leaves the
\* store only through remove_session on its identifier or through a cleanup
\* run at whose start it had expired.
C13_CleanupRemovesExactlyExpired ==
    [][ /\ cleanup_expired_sessions
            => /\ \A i \in DOMAIN sessions :
                     (i \in DOMAIN sessions')
                         <=> (sessions[i].last_activity + SessionTimeout >= now)
               /\ DOMAIN sessions' \subseteq DOMAIN sessions
               /\ \A i \in DOMAIN sessions' : sessions'[i] = sessions[i]
        /\ \A i \in DOMAIN sessions \ DOMAIN sessions' :
              \/ remove_session(i)
              \/ /\ cleanup_expired_sessions
                 /\ sessions[i].last_activity + SessionTimeout < now ]_vars

\* A cleanup run has removed a session and kept one that was last active
\* exactly one hour before.
C13_Witness ==
    /\ reaped # {}
    /\ \E i \in DOMAIN sessions :
          sessions[i].last_activity + SessionTimeout = now

\* C14: after n calls of add_conversation_turn the history of a session holds
\* the last min(n, 10) turns it was called with, in the order of the calls;
\* it is never longer than 10.
C14_HistoryIsLastTenAppended ==
    \A i \in DOMAIN sessions :
        LET h == sessions[i].conversation_history
            n == Len(appended[i])
            k == IF n < HistoryCap THEN n ELSE HistoryCap
        IN  /\ Len(h) = k
            /\ Len(h) <= HistoryCap
            /\ \A j \in 1..k : h[j] = appended[i][n - k + j]

\* More than ten turns were appended and the oldest ones are gone.
C14_Witness ==
    \E i \in DOMAIN sessions :
        /\ Len(appended[i]) = HistoryCap + 2
        /\ Len(sessions[i].conversation_history) = HistoryCap
        /\ appended[i][1] # appended[i][3]
        /\ sessions[i].conversation_history[1] = appended[i][3]

\* The error envelope _route_message sends for a type that names no handler.
UnknownTypeError(message_type) ==
    ErrorEnvelope("Unknown message type: " \o Spelled(message_type))

\* The handler of connection c, or _route_message around it, runs in this
\* step: a message is routed to its first await, or the call awaited ends.
Runs(c) == calls'[c] # calls[c]

\* The handling of the message of connection c ends in this step.
Ends(c) == calls[c].line # 0 /\ calls'[c].line = 0

\* The websocket.send_json connection c awaits ends in this step with outcome.
Sends(c, outcome) ==
    /\ calls[c].line \in SendLines
    /\ Runs(c)
    /\ emitted'.to = c
    /\ emitted'.tried = <<send_json(calls[c].request, outcome)>>

\* The loop of connection c ends in this step: handle_connection returns, or
\* goes on to await the close of the socket with code 1011.
LoopEnds(c) == c \in Serving(conn) /\ c \notin Serving(conn')

\* The claim as the specification states it: for an envelope whose type names
\* no handler exactly one error envelope goes out, no session is changed and
\* the connection stays as it was, waiting for the next message.
C15_UnknownTypeNeverEndsLoop ==
    [][ \A c \in Conns :
           (calls[c].line = 73 /\ Runs(c))
               => /\ emitted'.to = c
                  /\ emitted'.envelopes = <<UnknownTypeError(calls[c].frame)>>
                  /\ sessions' = sessions
                  /\ conn' = conn
                  /\ Receiving(c)' ]_vars

\* C15: for an inbound envelope whose type is a string that names no handler,
\* or is missing, the dispatcher sends one error envelope and changes no
\* session.  When that send completes, the error envelope is the only one to
\* go out and the connection stays as it was, waiting for the next message;
\* when it raises, nothing goes out and the loop ends.
C15_UnknownTypeAnsweredWithOneError ==
    [][ \A c \in Conns :
           /\ \A message_type \in UnregisteredTypes :
                 unknown_type(c, message_type)
                     => /\ calls'[c].line = 73
                        /\ calls'[c].request = UnknownTypeError(message_type)
                        /\ calls'[c].sent = <<>>
                        /\ emitted' = NoEmission
                        /\ sessions' = sessions
                        /\ conn' = conn
           /\ (calls[c].line = 73 /\ Runs(c))
                 => /\ calls[c].frame \in UnregisteredTypes
                    /\ calls[c].request = UnknownTypeError(calls[c].frame)
                    /\ calls[c].sent = <<>>
                    /\ Ends(c)
                    /\ \E outcome \in SendOutcomes : Sends(c, outcome)
                    /\ IF Sends(c, "ok")
                       THEN /\ emitted'.envelopes = <<calls[c].request>>
                            /\ sessions' = sessions
                            /\ conn' = conn
                            /\ Receiving(c)'
                       ELSE /\ emitted'.envelopes = <<>>
                            /\ LoopEnds(c)
                            /\ DOMAIN sessions' = DOMAIN sessions
                            /\ \A i \in DOMAIN sessions :
                                  [sessions'[i] EXCEPT !.websocket = NoSocket]
                                     = [sessions[i] EXCEPT !.websocket = NoSocket]
       ]_vars

\* The error envelope for a message without a type is on its way on a
\* connection that is still established and bound, waiting for the next
\* message.
C15_Witness ==
    /\ emitted.frame = None
    /\ emitted.envelopes = <<UnknownTypeError(None)>>
    /\ emitted.to \in Conns
    /\ conn[emitted.to].state = "established"
    /\ calls[emitted.to] = NoCall
    /\ conn[emitted.to].session \in DOMAIN sessions
    /\ sessions[conn[emitted.to].session].websocket = emitted.to

\* C16: a connection attempt with a session id that is not in the store is
\* closed with code 4004: no envelope is sent, no session is created or
\* changed, and the connection never gets to receive a message.
C16_UnknownSessionRejected ==
    [][ /\ \A c \in Conns, session_id \in KnownIds :
              (connect(c, session_id) /\ session_id \notin DOMAIN sessions)
                  => /\ conn'[c].state = "rejected"
                     /\ conn'[c].code = InvalidSession
                     /\ emitted' = NoEmission
                     /\ sessions' = sessions
                     /\ <<next_id, created>>' = <<next_id, created>>
        /\ \A c \in Conns :
              conn[c].state = "rejected" => conn'[c] = conn[c] ]_vars

\* Connections were turned away, one of them with the id of a reaped session.
C16_Witness ==
    /\ \E c \in Conns : conn[c].state = "rejected" /\ conn[c].code = InvalidSession
    /\ reaped # {}
    /\ \A c \in Conns : conn[c].state \in {"new", "rejected"}
    /\ DOMAIN sessions = {}

\* handle_connection returns for connection c in this step, out of its loop
\* or out of the await of the socket's close.
LoopExit(c) == c \in Holding(conn) /\ conn'[c].state = "closed"

\* The loop of connection c ends on an internal error in this step: the
\* handler goes on to await the close of the socket with code 1011.
Aborts(c) == c \in Serving(conn) /\ conn'[c].state = "aborting"

\* C17: when handle_connection returns, after a disconnect or after the
\* close that follows an internal error, the session stays in the store with
\* its handle cleared and everything else as it was, history and preferences
\* included; while the close is awaited the session is not touched.  A new
\* connection can always be established with the id of a session in the
\* store, and a connection that is established is bound to a session of the
\* store, which is otherwise as it was but for its refreshed activity, and
\* is sent the connection_established envelope.
C17_TeardownKeepsSessionForReconnect ==
    [][ /\ \A c \in Conns :
              /\ (LoopExit(c) /\ conn[c].session \in DOMAIN sessions)
                    => LET id == conn[c].session
                       IN  /\ id \in DOMAIN sessions'
                           /\ sessions'[id] =
                                 [sessions[id] EXCEPT !.websocket = NoSocket]
                           /\ appended'[id] = appended[id]
              /\ Aborts(c) => /\ sessions' = sessions
                              /\ appended' = appended
        /\ \A c \in Conns, session_id \in DOMAIN sessions :
              (Quiet /\ conn[c].state = "new")
                  => ENABLED (/\ connect(c, session_id)
                              /\ conn'[c].state = "established"
                              /\ conn'[c].session = session_id)
        /\ \A c \in Conns :
              (conn[c].state = "new" /\ conn'[c].state = "established")
                  => LET id == conn'[c].session
                     IN  /\ id \in DOMAIN sessions
                         /\ sessions' = [sessions EXCEPT ![id] =
                               [sessions[id] EXCEPT !.websocket = c,
                                                    !.last_activity = now]]
                         /\ emitted' = Emit(c, <<Envelope("connection_established")>>)
       ]_vars

\* The only session has a turn and preferences; one connection to it ended on
\* an internal error, and the connection opened afterwards is bound to it.
C17_Witness ==
    /\ next_id = 2
    /\ \E c1, c2 \in Conns :
          /\ conn[c1].state = "closed" /\ conn[c1].code = InternalError
          /\ conn[c2].state = "established" /\ conn[c2].session = 1
    /\ 1 \in DOMAIN sessions
    /\ sessions[1].websocket # NoSocket
    /\ sessions[1].conversation_history # <<>>
    /\ sessions[1].current_provider # None

\* C18: no two connections are established for the same session at once.
C18_OneLiveConnectionPerSession ==
    \A c1, c2 \in Conns :
        (c1 # c2 /\ conn[c1].state = "established" /\ conn[c2].state = "established")
            => conn[c1].session # conn[c2].session

\* The error envelope _route_message sends for a handler that raised.
RouteError(message_type) == ErrorEnvelope("Error processing " \o message_type)

\* The handler of a recognized message kind raises on connection c in this
\* step: _route_message goes on to send its error envelope.
HandlerRaises(c) == calls[c].line # 66 /\ calls'[c].line = 66

\* The claim as the specification states it: when the handler of a recognized
\* message kind raises, exactly one error envelope is sent for the message
\* and the loop goes on, the connection as it was and the handle untouched.
C19_HandlerFailureNeverEndsLoop ==
    [][ \A c \in Conns :
           (calls[c].line = 66 /\ Runs(c))
               => /\ emitted'.to = c
                  /\ emitted'.envelopes = <<RouteError(calls[c].frame)>>
                  /\ conn' = conn
                  /\ Receiving(c)'
                  /\ DOMAIN sessions' = DOMAIN sessions
                  /\ \A i \in DOMAIN sessions :
                        sessions'[i].websocket = sessions[i].websocket ]_vars

\* C19: a send of a handler that raises never ends the loop: the handler, or
\* the dispatcher for it, goes on to answer with an envelope of its own,
\* unless the send was that of an audio_response, whose exceptions the
\* handlers swallow.  When the handler of a recognized message kind raises,
\* the dispatcher sends one error envelope for the message.  When that send
\* completes, no other error envelope has gone out for the message and the
\* loop goes on: the connection stays as it was, waiting for the next message,
\* and no session is touched.  When that send raises too, the loop ends.
C19_HandlerFailureAnsweredWithOneError ==
    [][ \A c \in Conns :
           /\ (calls[c].frame \in message_handlers /\ calls[c].line # 66
                  /\ \E outcome \in SendOutcomes \ {"ok"} : Sends(c, outcome))
                 => /\ conn' = conn
                    /\ sessions' = sessions
                    /\ Ends(c) => calls[c].request.type = "audio_response"
           /\ HandlerRaises(c)
                 => /\ calls[c].frame \in message_handlers
                    /\ calls'[c].frame = calls[c].frame
                    /\ calls'[c].request = RouteError(calls[c].frame)
                    /\ \E outcome \in SendOutcomes \ {"ok"} : Sends(c, outcome)
                    /\ calls[c].request.type # "audio_response"
           /\ (calls[c].line = 66 /\ Runs(c))
                 => /\ Ends(c)
                    /\ \E outcome \in SendOutcomes : Sends(c, outcome)
                    /\ calls[c].request = RouteError(calls[c].frame)
                    /\ IF Sends(c, "ok")
                       THEN /\ emitted'.envelopes = <<RouteError(calls[c].frame)>>
                            /\ \A k \in DOMAIN calls[c].sent :
                                  calls[c].sent[k].envelope.type = "error"
                                      => calls[c].sent[k].outcome # "ok"
                            /\ conn' = conn
                            /\ Receiving(c)'
                            /\ sessions' = sessions
                       ELSE LoopEnds(c) ]_vars

\* The pong of a ping could not be sent; the error envelope of the dispatcher
\* went out and is on its way on a connection that is still established and
\* bound.
C19_Witness ==
    /\ emitted.frame = "ping"
    /\ emitted.envelopes = <<RouteError("ping")>>
    /\ emitted.to \in Conns
    /\ conn[emitted.to].state = "established"
    /\ calls[emitted.to] = NoCall
    /\ conn[emitted.to].session \in DOMAIN sessions
    /\ sessions[conn[emitted.to].session].websocket = emitted.to

\* The error envelope of _handle_text_input's except clause.
TextError == ErrorEnvelope("Error processing message")

\* C20: a text_input message sends nothing and appends nothing before the
\* router's chat is done.  When the chat raises because every provider
\* failed, the handler goes on to send one error envelope, having sent
\* nothing, with no turn appended and the session as it was.  When that send
\* completes, the error envelope is all that went out for the message, and
\* the connection stays established, waiting for the next message; when it
\* raises, the handler raises and no session is touched.
C20_ChatFailureAnsweredWithOneError ==
    [][ \A c \in Conns :
           /\ \A text \in TypedTexts :
                 text_input(c, text)
                     => /\ calls'[c].line = 298
                        /\ calls'[c].sent = <<>>
                        /\ emitted' = NoEmission
                        /\ appended' = appended
                        /\ sessions' = sessions
                        /\ conn' = conn
           /\ (calls[c].line = 298 /\ chat_returned(c, EveryProviderFailed))
                 => /\ calls'[c] = [calls[c] EXCEPT !.line = 354,
                                                    !.request = TextError]
                    /\ calls'[c].sent = <<>>
                    /\ emitted' = NoEmission
                    /\ appended' = appended
                    /\ sessions' = sessions
                    /\ conn' = conn
           /\ (calls[c].line = 354 /\ calls[c].sent = <<>> /\ Runs(c))
                 => /\ calls[c].frame = "text_input"
                    /\ calls[c].request = TextError
                    /\ \E outcome \in SendOutcomes : Sends(c, outcome)
                    /\ appended' = appended
                    /\ sessions' = sessions
                    /\ conn' = conn
                    /\ IF Sends(c, "ok")
                       THEN /\ emitted'.envelopes = <<TextError>>
                            /\ Ends(c)
                            /\ Receiving(c)'
                       ELSE HandlerRaises(c) ]_vars

\* The error envelope of a failed chat is on its way; the session has no
\* turn and its connection is established, waiting for the next message.
C20_Witness ==
    /\ emitted.frame = "text_input"
    /\ emitted.envelopes = <<TextError>>
    /\ emitted.to \in Conns
    /\ conn[emitted.to].state = "established"
    /\ calls[emitted.to] = NoCall
    /\ conn[emitted.to].session \in DOMAIN sessions
    /\ sessions[conn[emitted.to].session].conversation_history = <<>>

\* C21: when the router's chat returns for a text_input message, one turn
\* with the text, the provider and the model of the result is appended to the
\* history of the connection's session, and to no other, before anything is
\* sent, and the handler goes on to send the response with that provider and
\* model; from there on the handler leaves the history as it is.  When the
\* send of the response completes the synthesis follows, and whatever it
\* does, the handler sends an audio_response (when the synthesis gave audio)
\* or returns, and then returns whatever becomes of that send: a response
\* that went out is followed by at most one audio_response and by no error
\* envelope.  An error envelope is sent only when the send of the response
\* raised.
C21_ChatSuccessAppendsTurnThenResponds ==
    [][ \A c \in Conns :
           /\ \A r \in ChatReturns :
                 (calls[c].line = 298 /\ r.pc = "returned" /\ chat_returned(c, r))
                     => LET id == conn[c].session
                            turn == Turn(calls[c].request.message, r.result.text,
                                         r.result.provider, r.result.model)
                        IN  /\ calls'[c].line = 314
                            /\ calls'[c].sent = <<>>
                            /\ calls'[c].request.type = "response"
                            /\ calls'[c].request.text = r.result.text
                            /\ calls'[c].request.provider = r.result.provider
                            /\ calls'[c].request.model = r.result.model
                            /\ emitted' = NoEmission
                            /\ conn' = conn
                            /\ id \in DOMAIN sessions
                                  => /\ appended' = [appended EXCEPT ![id] =
                                                        Append(@, turn)]
                                     /\ sessions' = [sessions EXCEPT ![id] =
                                           add_conversation_turn(@,
                                               turn.user, turn.assistant,
                                               turn.provider, turn.model)]
                                     /\ sessions'[id].conversation_history[
                                           Len(sessions'[id].conversation_history)]
                                           = turn
           /\ (calls[c].frame = "text_input" /\ calls[c].line \notin {298, 66}
                  /\ Runs(c))
                 => /\ sessions' = sessions
                    /\ appended' = appended
                    /\ conn' = conn
           /\ (calls[c].line = 314 /\ Runs(c))
                 => /\ \E outcome \in SendOutcomes : Sends(c, outcome)
                    /\ IF Sends(c, "ok")
                       THEN /\ emitted'.envelopes = <<calls[c].request>>
                            /\ calls'[c].line = 329
                       ELSE /\ calls'[c].line = 354
                            /\ calls'[c].request = TextError
           /\ (calls[c].line = 329 /\ Runs(c))
                 => /\ emitted' = NoEmission
                    /\ Len(calls[c].sent) = 1
                    /\ calls[c].sent[1].outcome = "ok"
                    /\ calls[c].sent[1].envelope.type = "response"
                    /\ \/ Ends(c)
                       \/ /\ calls'[c].line = 335
                          /\ calls'[c].request = Envelope("audio_response")
                    /\ calls'[c].line = 335 <=> synthesized(c, "audio")
           /\ (calls[c].line = 335 /\ Runs(c))
                 => /\ \E outcome \in SendOutcomes : Sends(c, outcome)
                    /\ Len(calls[c].sent) = 1
                    /\ calls[c].sent[1].envelope.type = "response"
                    /\ Ends(c)
           /\ (calls[c].frame = "text_input" /\ Runs(c) /\ calls'[c].line = 354)
                 => \/ calls[c].line = 298
                    \/ /\ calls[c].line = 314
                       /\ \E outcome \in SendOutcomes \ {"ok"} : Sends(c, outcome)
       ]_vars

\* The response to a text_input is on its way, the turn is in the history and
\* the handler awaits the synthesis.
C21_Witness ==
    /\ emitted.frame = "text_input"
    /\ calls[emitted.to].line = 329
    /\ Len(emitted.envelopes) = 1
    /\ emitted.envelopes[1].type = "response"
    /\ emitted.envelopes[1].provider = "openai"
    /\ conn[emitted.to].session \in DOMAIN sessions
    /\ Len(sessions[conn[emitted.to].session].conversation_history) = 1
    /\ sessions[conn[emitted.to].session].conversation_history[1].provider = "openai"

\* C22: an audio_data message sends nothing before the transcription
\* envelope, which carries what transcribe_audio gave.  When its send
\* completes and the transcribed text is empty or the confidence is at most
\* 30, the handler returns: only the transcription went out and the router's
\* chat is not called.  When the text is not empty and the confidence is
\* above 30, the handler goes on to call the router's chat with the
\* transcribed text.  The router's chat is called for an audio_data message
\* only so, and a response is sent only after a call that was made.
C22_ConfidenceGatesTheChatCall ==
    [][ \A c \in Conns :
           /\ \A heard \in Heard :
                 (calls[c].line = 196 /\ ~heard.raised /\ transcribed(c, heard))
                     => /\ calls'[c].line = 201
                        /\ calls'[c].request =
                              Transcription(Strip(heard.text), heard.confidence,
                                            IF heard.error THEN "error" ELSE None)
                        /\ calls'[c].sent = <<>>
                        /\ emitted' = NoEmission
           /\ (calls[c].line = 201 /\ Runs(c))
                 => /\ \E outcome \in SendOutcomes : Sends(c, outcome)
                    /\ calls[c].request.type = "transcription"
                    /\ appended' = appended
                    /\ sessions' = sessions
                    /\ conn' = conn
                    /\ IF Sends(c, "ok")
                       THEN /\ emitted'.envelopes = <<calls[c].request>>
                            /\ IF calls[c].request.text = ""
                                    \/ calls[c].request.confidence
                                           <= ConfidenceThreshold
                               THEN Ends(c)
                               ELSE /\ calls'[c].line = 217
                                    /\ calls'[c].request =
                                          ChatRequest(HeldSession(c),
                                                      calls[c].request.text)
                                    /\ calls'[c].sent = <<send_json(calls[c].request, "ok")>>
                       ELSE calls'[c].line = 281
           /\ (calls[c].line # 217 /\ calls'[c].line = 217)
                 => /\ calls[c].line = 201
                    /\ Sends(c, "ok")
                    /\ calls[c].request.text # ""
                    /\ calls[c].request.confidence > ConfidenceThreshold
           /\ (calls[c].frame = "audio_data" /\ Runs(c) /\ calls'[c].line = 233)
                 => calls[c].line = 217
       ]_vars

\* The transcription of an utterance went out and the router is being asked
\* with its text.
C22_Witness ==
    /\ emitted.frame = "audio_data"
    /\ Len(emitted.envelopes) = 1
    /\ emitted.envelopes[1].type = "transcription"
    /\ emitted.envelopes[1].confidence = ConfidenceThreshold + 1
    /\ calls[emitted.to].line = 217
    /\ calls[emitted.to].request.message = "hello"

\* Connection c handles a change_provider or change_model message, or the
\* dispatcher answers for its handler, in this step.
ChangesPreference(c) ==
    /\ Runs(c)
    /\ {calls[c].frame, calls'[c].frame} \cap {"change_provider", "change_model"}
          # {}

\* C23: the handling of a change_provider or change_model message changes
\* nothing but the preferred provider and model of the connection's session
\* (and its handle, when the loop ends on a send that raised): the router's
\* state (its current provider and model, the adapters' models and health
\* flags, the calls made to it) and every other session stay as they are, and
\* the router's chat is not called.  The message assigns the preferences and
\* the handler goes on to send the confirmation that echoes them; when that
\* send completes, one confirmation envelope has gone out and the connection
\* stays as it was.
C23_PreferenceChangeTouchesOnlyTheSession ==
    [][ \A c \in Conns :
           /\ ChangesPreference(c)
                 => /\ UNCHANGED routerVars
                    /\ appended' = appended
                    /\ calls'[c].line \in SendLines \cup {0}
                    /\ DOMAIN sessions' = DOMAIN sessions
                    /\ \A i \in DOMAIN sessions :
                          IF i = conn[c].session
                          THEN [sessions'[i] EXCEPT !.current_provider = None,
                                                    !.current_model = None,
                                                    !.websocket = NoSocket]
                               = [sessions[i] EXCEPT !.current_provider = None,
                                                     !.current_model = None,
                                                     !.websocket = NoSocket]
                          ELSE sessions'[i] = sessions[i]
                    /\ calls[c].line # 0 => sessions' \in
                          {sessions, Stored(ClearHandle(Objects, conn[c].session))}
           /\ (calls[c].line = 0 /\ ChangesPreference(c))
                 => /\ calls'[c].line \in {95, 111}
                    /\ calls'[c].request.type =
                          IF calls'[c].line = 95 THEN "provider_changed"
                          ELSE "model_changed"
                    /\ calls'[c].sent = <<>>
                    /\ emitted' = NoEmission
                    /\ conn' = conn
                    /\ \A i \in DOMAIN sessions :
                          sessions'[i].websocket = sessions[i].websocket
                    /\ conn[c].session \in DOMAIN sessions
                          => <<sessions'[conn[c].session].current_provider,
                               sessions'[conn[c].session].current_model>>
                             = <<calls'[c].request.provider,
                                 calls'[c].request.model>>
           /\ \A provider \in FrameProviders, model \in FrameModels :
                 change_provider(c, provider, model)
                     => calls'[c].request =
                           Confirmation("provider_changed", provider, model)
           /\ \A model \in FrameModels,
                 provider \in FrameProviders \cup {None, Absent} :
                 change_model(c, model, provider)
                     => /\ calls'[c].request.type = "model_changed"
                        /\ calls'[c].request.model = model
                        /\ calls'[c].request.provider =
                              IF provider = Absent
                              THEN HeldSession(c).current_provider
                              ELSE provider
           /\ (calls[c].line \in {95, 111} /\ Sends(c, "ok"))
                 => /\ emitted'.envelopes = <<calls[c].request>>
                    /\ Ends(c)
                    /\ sessions' = sessions
                    /\ conn' = conn ]_vars

\* The router has a provider and a model of its own; of two sessions one has
\* had other preferences set over its connection, whose confirmation is on
\* its way, and the other has none.
C23_Witness ==
    /\ current_provider = "openai"
    /\ DOMAIN sessions = {1, 2}
    /\ emitted.envelopes = <<Confirmation("model_changed", "claude", "gpt-4o")>>
    /\ conn[emitted.to].session \in DOMAIN sessions
    /\ sessions[conn[emitted.to].session].current_model = "gpt-4o"
    /\ sessions[conn[emitted.to].session].current_provider = "claude"
    /\ \E i \in DOMAIN sessions :
          sessions[i].current_provider = None /\ sessions[i].current_model = None

\* The provider name of the set_provider call this step is, if it is one.
SetProviderCalled ==
    IF returned = <<>> /\ returned' # <<>>
    THEN {returned'[1].provider} \cap
             (IF returned'[1].call = "set_provider" THEN ProviderNames ELSE {})
    ELSE {}

\* The provider arguments of the set_model call this step is, if it is one:
\* the provider the call was about, or none when that is the current one.
SetModelCalled ==
    IF returned = <<>> /\ returned' # <<>>
    THEN (IF returned'[1].call = "set_model"
          THEN {returned'[1].provider} \cap ProviderNames ELSE {})
         \cup (IF returned'[1].call = "set_model"
                    /\ returned'[1].provider = current_provider
                THEN {None} ELSE {})
    ELSE {}

\* C24: set_provider(name, model) returns false and leaves the router's
\* current provider and model as they are when name is not registered or its
\* adapter is not available; otherwise it returns true, name is the current
\* provider, and the current model is the supplied model when the adapter
\* accepted it, and the adapter's own current model when it did not or when
\* none was supplied.
C24_SetProviderValidatesThenSwitches ==
    [][ \A provider_name \in SetProviderCalled, model \in InputModels \cup {None} :
           set_provider(provider_name, model)
               => IF provider_name \notin providers
                       \/ ~is_available(provider_name)
                  THEN /\ returned'[1].value = FALSE
                       /\ UNCHANGED <<current_provider, current_model,
                                      adapter_model>>
                  ELSE /\ returned'[1].value = TRUE
                       /\ current_provider' = provider_name
                       /\ current_model' =
                             IF model # None
                                  /\ adapter_set_model(provider_name, model)
                             THEN model
                             ELSE adapter_model[provider_name]
                       /\ current_model' = adapter_model'[provider_name] ]_vars

\* set_provider has returned true for claude and the router's current model
\* is a model claude had been given before; openai has had its model changed
\* as well.
C24_Witness ==
    /\ returned = Returned("set_provider", "claude", TRUE)
    /\ current_provider = "claude"
    /\ current_model = "claude-3-haiku-20240307"
    /\ adapter_model["openai"] = "gpt-3.5-turbo"

\* C25: set_model(model, provider) validates the targeted (or current)
\* provider as set_provider does: it returns false and changes nothing when
\* that provider is not registered or its adapter is not available.  Read
\* here for a cloud adapter as the target; the local adapter is never
\* available (C8).
C25_SetModelValidatesLikeSetProvider ==
    [][ \A model \in InputModels, provider \in SetModelCalled :
           set_model(model, provider)
               => LET ptu == IF provider # None THEN provider
                             ELSE current_provider
                  IN  (ptu \notin providers
                          \/ (ptu \in Credentialed /\ ~is_available(ptu)))
                          => /\ returned'[1].value = FALSE
                             /\ UNCHANGED <<current_provider, current_model,
                                            adapter_model>> ]_vars

\* C26: when the adapter of the targeted (or current) provider rejects the
\* model id, set_model returns false, and the router's current provider and
\* model and every adapter's current model stay as they are.
C26_RejectedModelChangesNothing ==
    [][ \A model \in InputModels, provider \in SetModelCalled :
           LET ptu == IF provider # None THEN provider ELSE current_provider
           IN  (set_model(model, provider) /\ ptu \in providers
                    /\ ~adapter_set_model(ptu, model))
                   => /\ returned' = Returned("set_model", ptu, FALSE)
                      /\ UNCHANGED <<current_provider, current_model,
                                     adapter_model, is_healthy>> ]_vars

\* set_model has returned false for the registered current provider, whose
\* adapter turned the model down.
C26_Witness ==
    /\ returned = Returned("set_model", "openai", FALSE)
    /\ "openai" \in providers
    /\ current_provider = "openai"
    /\ current_model = "gpt-3.5-turbo"
    /\ adapter_model["openai"] = "gpt-3.5-turbo"

\* C27: every invocation of the fallback pass passes the adapter that
\* candidate's own current model, and when it succeeds the result reports
\* that provider and that model.
C27_FallbackUsesCandidatesOwnModel ==
    [][ (Len(invoked') = Len(invoked) + 1 /\ invoked'[Len(invoked')].fallback)
           => LET tried == invoked'[Len(invoked')]
              IN  /\ tried.model = adapter_model[tried.provider]
                  /\ tried.ok
                        => /\ pc' = "returned"
                           /\ result'.provider = tried.provider
                           /\ result'.model = tried.model
                           /\ result'.model = adapter_model[result'.provider] ]_vars

\* A fallback answered a call that named a model, with a model that is
\* neither the one named nor the router's current one.
C27_Witness ==
    /\ pc = "returned"
    /\ result.fallback_used
    /\ model_to_use = "gpt-3.5-turbo"
    /\ result.model # model_to_use
    /\ current_model # None
    /\ result.model # current_model
    /\ result.model = adapter_model[result.provider]

\* C28: when health_check_all returns, the check of every registered adapter
\* has run and every registered adapter's health flag is the outcome of its
\* own check in that sweep, false when the check raised, whatever the checks
\* of the other adapters did; during the sweep a flag is written only when
\* the check of its own adapter completes.
C28_SweepSetsEachFlagFromItsOwnCheck ==
    [][ /\ (returned = <<>> /\ returned' # <<>>
              /\ returned'[1].call = "health_check_all")
           => LET outcome == returned'[1].value
              IN  /\ DOMAIN outcome = providers
                  /\ \A p \in providers :
                        /\ outcome[p] \in HealthOutcomes
                        /\ is_healthy'[p] = (outcome[p] = "healthy")
        /\ \A p \in Chain :
              (initialized /\ is_healthy'[p] # is_healthy[p])
                 => /\ p \in DOMAIN sweep
                    /\ sweep[p] = Pending
                    /\ (sweep' = NoSweep \/ sweep'[p] # Pending)
      ]_vars

\* Both cloud adapters are registered and were healthy; a sweep in which the
\* check of the first raised and the check of the second succeeded has
\* returned, leaving the first unhealthy and the second healthy.
C28_Witness ==
    /\ Credentialed \subseteq providers
    /\ current_provider = "openai"
    /\ returned # <<>>
    /\ returned[1].call = "health_check_all"
    /\ returned[1].value["openai"] = "raise"
    /\ returned[1].value["claude"] = "healthy"
    /\ ~is_healthy["openai"]
    /\ is_healthy["claude"]

\* C29: after initialize the router's default provider is the first entry of
\* the chain openai, claude, ollama that is registered and qualifies
\* (is_available() for a provider with a credential, healthy with a current
\* model for the local one), the default model is that adapter's current
\* model, and no default is set exactly when no entry qualifies.
C29_DefaultIsFirstQualifyingChainEntry ==
    [][ (~initialized /\ initialized')
           => LET qualifying ==
                      {i \in 1..Len(fallback_chain) :
                          LET p == fallback_chain[i]
                          IN  /\ p \in providers'
                              /\ IF p \in Credentialed
                                 THEN p \in api_keys' /\ is_healthy'[p]
                                 ELSE is_healthy'[p] /\ adapter_model'[p] # None}
              IN  IF qualifying = {}
                  THEN current_provider' = None /\ current_model' = None
                  ELSE \E i \in qualifying :
                          /\ \A j \in qualifying : i <= j
                          /\ current_provider' = fallback_chain[i]
                          /\ current_model' = adapter_model'[fallback_chain[i]]
       ]_vars

\* Both cloud adapters are registered and the local one is the default.
C29_Witness ==
    /\ initialized
    /\ Credentialed \subseteq providers
    /\ current_provider = "ollama"
    /\ current_model = OllamaTag

\* C30 (as amended): while no default is set and no registered adapter's
\* is_available() holds, every chat call raises the all-providers-failed
\* error without invoking an adapter, and the default stays unset.
C30_NoDefaultChatFailsWhileNoneAvailable ==
    [][ (initialized /\ current_provider = None
            /\ \A p \in providers : ~is_available(p))
           => /\ (pc = "idle" /\ pc' # "idle")
                    => (pc' = "raised" /\ invoked' = <<>>)
              /\ current_provider' = None ]_vars

\* C30 as stated: while no default is set every chat call fails, also after
\* later health_check_all sweeps.
C30_NoDefaultMeansChatFails ==
    (initialized /\ current_provider = None) => pc # "returned"

\* With adapters registered but none qualifying as default, a call that
\* named one of them has raised.
C30_Witness ==
    /\ initialized
    /\ current_provider = None
    /\ providers # {}
    /\ provider_to_use \in providers
    /\ pc = "raised"
    /\ invoked = <<>>

\* C31: after initialize a provider with a credential (openai, claude) is
\* registered exactly when its key is configured, whatever its startup health
\* check gave, and the local provider (ollama) exactly when its startup health
\* check succeeded; initialize completes whatever the keys and the checks.
C31_RegisteredByCredentialOrLocalHealth ==
    [][ \A h \in [Chain -> BOOLEAN], tags \in BOOLEAN :
           initialize(h, tags)
               => /\ \A p \in Credentialed :
                        (p \in providers') <=> (p \in api_keys)
                  /\ \A p \in Credentialed \cap providers' : is_healthy'[p] = h[p]
                  /\ ("ollama" \in providers') <=> h["ollama"]
                  /\ initialized' ]_vars

\* openai was registered although its startup check failed, claude has no
\* key, and the local adapter, whose check succeeded, became the default.
C31_Witness ==
    /\ initialized
    /\ providers = {"openai", "ollama"}
    /\ api_keys = {"openai"}
    /\ ~is_healthy["openai"]
    /\ current_provider = "ollama"

\* C38: when chat is called for a provider and with no model, every adapter
\* it invokes is passed that adapter's own current model, never the current
\* model of another provider, and a result reports the model its provider
\* was passed.
C38_ModelBelongsToInvokedProvider ==
    [][ \A provider \in Chain, outcome \in ChatOutcomes :
           chat_call(provider, None, outcome)
               => /\ \A i \in DOMAIN invoked' :
                        invoked'[i].model = adapter_model[invoked'[i].provider]
                  /\ pc' = "returned"
                        => result'.model = adapter_model[result'.provider] ]_vars

\* C39: whenever the router's current provider is set, the router's current
\* model is the current model of that provider's adapter.
C39_CurrentModelIsAdaptersModel ==
    current_provider # None
        => /\ current_provider \in providers
           /\ current_model = adapter_model[current_provider]

\* set_model has just changed the model of an adapter that is not the
\* current provider's, after the current provider's had been changed too.
C39_Witness ==
    /\ returned = Returned("set_model", "claude", TRUE)
    /\ current_provider = "openai"
    /\ current_model = "gpt-3.5-turbo"
    /\ adapter_model["claude"] = "claude-3-haiku-20240307"

\* C40: every invocation of an adapter's chat by ProviderManager.chat, first
\* attempt or fallback, is of a registered adapter that has a credential and
\* whose health flag is true at that moment.
C40_OnlyAvailableAdaptersInvoked ==
    [][ Len(invoked') > Len(invoked)
           => LET tried == invoked'[Len(invoked')].provider
              IN  /\ tried \in providers
                  /\ adapter_api_key(tried) # None
                  /\ is_healthy[tried]
                  /\ tried \notin skipped' ]_vars

\* The call named claude, registered but not available: it was passed over
\* and openai answered.
C40_Witness ==
    /\ pc = "returned"
    /\ provider_to_use = "claude"
    /\ "claude" \in providers
    /\ skipped = {"claude"}
    /\ Len(invoked) = 1
    /\ invoked[1].provider = "openai"

\* The sessions a broadcast has sent to, or tried to.
SentTo == {broadcast.sent[k] : k \in DOMAIN broadcast.sent}

\* The sessions that have had one socket bound ever since the broadcast
\* started (a handle that was cleared is never bound to the same socket
\* again).
BoundThroughout ==
    {i \in DOMAIN sessions \cap DOMAIN broadcast.start.handles :
        /\ sessions[i].websocket # NoSocket
        /\ sessions[i].websocket = broadcast.start.handles[i]}

\* C32: broadcast_to_all tries the send once on every session that has a
\* socket bound, whether or not sends before it failed, and a send that fails
\* does not make the broadcast raise: a broadcast raises only when sessions
\* came or went since it started, and when it ends it has sent once to every
\* session that has had its socket bound all along, and the sends that failed
\* are among those it made.
C32_BroadcastSendsOnceToEveryBoundSession ==
    [][ /\ (broadcast.state # "raised" /\ broadcast'.state = "raised")
              => DOMAIN sessions # DOMAIN broadcast.start.handles
        /\ (broadcast.state # "done" /\ broadcast'.state = "done")
              => /\ BoundThroughout' \subseteq SentTo'
                 /\ \A j, k \in DOMAIN broadcast'.sent :
                       j # k => broadcast'.sent[j] # broadcast'.sent[k]
                 /\ broadcast'.failed \subseteq SentTo' ]_vars

\* C33: a broadcast never raises, whatever is created, removed or reaped
\* while it is suspended in a send, and when it ends it has sent to every
\* session that had a socket bound when it started and is still in the store.
C33_BroadcastToleratesStoreChanges ==
    /\ broadcast.state # "raised"
    /\ broadcast.state = "done"
          => \A i \in DOMAIN sessions \cap DOMAIN broadcast.start.handles :
                broadcast.start.handles[i] # NoSocket => i \in SentTo

\* The send of an envelope of the dispatcher's own on connection c (the error
\* envelope for a handler that raised, or the one for a type that names no
\* handler) ends with outcome in this step.
DispatcherSends(c, outcome) == calls[c].line \in {66, 73} /\ Sends(c, outcome)

\* C34: the processing loop of a connection ends only when the transport
\* reports a disconnect, and then handle_connection returns with no close
\* code sent, or on a failure outside the handlers: a message that cannot be
\* taken as an envelope, or a send of the dispatcher's own that raises; the
\* handler then awaits the close of the socket with code 1011 and returns
\* (it returns at once, with no close code, when what the send raised is the
\* transport's disconnect).  A step of a message handler, whatever the calls
\* it awaits give and whatever it sends, leaves every connection in its loop.
C34_LoopEndsOnlyOnDisconnectOrUndecodable ==
    [][ \A c \in Conns :
           /\ LoopEnds(c)
                 => \/ disconnect(c) /\ conn'[c] = Closed(NoCode)
                    \/ /\ undecodable(c) \/ unhashable_type(c)
                       /\ conn'[c].state = "aborting"
                       /\ conn'[c].code = InternalError
                    \/ /\ DispatcherSends(c, "disconnect")
                       /\ conn'[c] = Closed(NoCode)
                    \/ /\ DispatcherSends(c, "raise")
                       /\ conn'[c].state = "aborting"
                       /\ conn'[c].code = InternalError
           /\ conn[c].state = "aborting"
                 => conn'[c] \in {conn[c], Closed(InternalError)}
           /\ (Runs(c) /\ calls[c].line \notin {66, 73})
                 => conn' = conn ]_vars

\* One connection ended on a message that was no envelope and was closed with
\* code 1011; on the other the router's chat failed for a text_input and the
\* connection is still in its loop, the error envelope on its way.
C34_Witness ==
    \E c1, c2 \in Conns :
        /\ conn[c1].state = "closed" /\ conn[c1].code = InternalError
        /\ conn[c2].state = "established"
        /\ emitted.to = c2
        /\ emitted.frame = "text_input"
        /\ emitted.envelopes = <<TextError>>

\* C35: when the loop of a connection ends, on a disconnect or on an
\* internal error, and when handle_connection returns after the close that
\* follows an internal error, the set of sessions in the store, every
\* session but the connection's own, the turns appended, every other
\* connection with the handler it is in, and the router are as before.
C35_TeardownTouchesOnlyOwnSession ==
    [][ \A c \in Conns :
           (LoopEnds(c) \/ LoopExit(c))
               => /\ DOMAIN sessions' = DOMAIN sessions
                  /\ \A i \in DOMAIN sessions \ {conn[c].session} :
                        sessions'[i] = sessions[i]
                  /\ \A i \in DOMAIN detached \ {conn[c].session} :
                        i \in DOMAIN detached' /\ detached'[i] = detached[i]
                  /\ \A c2 \in Conns \ {c} :
                        conn'[c2] = conn[c2] /\ calls'[c2] = calls[c2]
                  /\ appended' = appended
                  /\ UNCHANGED routerVars ]_vars

\* A connection ended on an internal error and was closed, while the other
\* session, with a turn in its history, is bound to a connection that is
\* still in its loop.
C35_Witness ==
    \E c1, c2 \in Conns :
        /\ conn[c1].state = "closed" /\ conn[c1].code = InternalError
        /\ conn[c2].state = "established"
        /\ conn[c2].session \in DOMAIN sessions
        /\ DOMAIN sessions = {1, 2}
        /\ sessions[conn[c2].session].websocket = c2
        /\ sessions[conn[c2].session].conversation_history # <<>>
        /\ \E i \in DOMAIN sessions :
              i # conn[c2].session /\ sessions[i].websocket = NoSocket

\* C36: as long as a connection of a session is in its processing loop, the
\* session has a handle bound, whatever other connections of the session were
\* torn down.
C36_LiveConnectionKeepsHandleBound ==
    \A c \in Conns :
        (conn[c].state = "established" /\ conn[c].session \in DOMAIN sessions)
            => sessions[conn[c].session].websocket # NoSocket

\* C37: once handle_connection has returned for a connection, no session's
\* handle is that connection.
C37_ReturnedConnectionIsUnbound ==
    \A c \in Conns :
        conn[c].state \in {"closed", "rejected"}
            => \A i \in DOMAIN sessions : sessions[i].websocket # c
====
